---- MODULE Spec2Model ----
(***************************************************************************)
(* Model of the congressional accountability platform: the paginated list  *)
(* endpoint and the profile aggregation endpoint of                        *)
(* backend/routes/legislators.js, run against a relational store shaped    *)
(* by docs/SCHEMA.sql; the correlation and CORS middleware, the            *)
(* placeholder routes and the two variants of the ETL trigger route of     *)
(* the backend; the FEC mapping job that fills fec_candidates; and the     *)
(* browser client's LegislatorList and LegislatorProfile components.       *)
(***************************************************************************)
EXTENDS Integers, Sequences, FiniteSets, TLC

\* ---------------------------------------------------------------------------
\* Bounds of the model
\* ---------------------------------------------------------------------------
MaxLegs == 26
MaxBills == 11
MaxVotes == 21
MaxTerms == 2
MaxCycles == 3
MaxPagingLegs == 5
\* legislators of the stores the whole server runs on
MaxServerLegs == 4
\* legislators of the stores the mapping job reads
MaxJobLegs == 4
\* Senate candidates the external source lists
MaxCandidates == 2
\* runs of the mapping job on the same records
MaxRuns == 2
\* config.FEC_PAGE_SIZE, the per_page of the requests to the source
FEC_PAGE_SIZE == 2
\* chunks of output of the ETL script that the trigger route collects
MaxChunks == 1
\* requests one client session sends
MaxFetches == 2
\* timers one client session sets
MaxTimers == 3
\* legislators in the store behind the client
MaxClientLegs == 2
\* pages the pagination buttons' updaters are applied to
MaxPage == 4

\* ---------------------------------------------------------------------------
\* Program constants
\* ---------------------------------------------------------------------------
DefaultPage == 1
DefaultPageSize == 24
\* const PAGE_SIZE = 24 of the list component
PAGE_SIZE == 24
BillLimit == 10
VoteLimit == 20

\* ---------------------------------------------------------------------------
\* JavaScript and SQL values
\* ---------------------------------------------------------------------------
\* SQL NULL, delivered by the driver as the JavaScript null
NULL == [isnull |-> TRUE]
\* a non-null value of a nullable column
Val(v) == [isnull |-> FALSE, val |-> v]
\* the JavaScript undefined
UNDEF == [undefined |-> TRUE]
\* the JavaScript numbers parseInt can return
NaN == [nan |-> TRUE]
Num(n) == [nan |-> FALSE, val |-> n]
\* the object literal {}
EmptyObject == [x \in {} |-> TRUE]

\* n || d for a number n: NaN and 0 are falsy
NumOr(n, d) == IF n.nan THEN d ELSE IF n.val = 0 THEN d ELSE n.val

\* rows[0] of a result set: undefined when the result set is empty
First(rows) == IF Len(rows) = 0 THEN UNDEF ELSE rows[1]

\* v || d for v an object or undefined: every object is truthy
ObjOr(v, d) == IF v = UNDEF THEN d ELSE v

DigitChars == {"0", "1", "2", "3", "4", "5", "6", "7", "8", "9"}
DigitVal == [c \in DigitChars |->
               CASE c = "0" -> 0 [] c = "1" -> 1 [] c = "2" -> 2 [] c = "3" -> 3
                 [] c = "4" -> 4 [] c = "5" -> 5 [] c = "6" -> 6 [] c = "7" -> 7
                 [] c = "8" -> 8 [] c = "9" -> 9]

RECURSIVE SkipSpaces(_)
SkipSpaces(s) == IF Len(s) > 0 /\ s[1] = " " THEN SkipSpaces(Tail(s)) ELSE s

\* value of the longest prefix of decimal digits of s, acc is the value so far
RECURSIVE DigitsValue(_, _)
DigitsValue(s, acc) ==
  IF Len(s) > 0 /\ s[1] \in DigitChars
    THEN DigitsValue(Tail(s), 10 * acc + DigitVal[s[1]])
    ELSE acc

\* a query-string parameter: absent (undefined in req.query), or its text as
\* a sequence of characters
Absent == [present |-> FALSE]
Text(t) == [present |-> TRUE, text |-> t]

\* parseInt(v, 10) of a query-string parameter
parseInt(v) ==
  IF ~v.present THEN NaN
  ELSE LET t == SkipSpaces(v.text)
           neg == Len(t) > 0 /\ t[1] = "-"
           u == IF Len(t) > 0 /\ t[1] \in {"-", "+"} THEN Tail(t) ELSE t
       IN IF Len(u) = 0 \/ u[1] \notin DigitChars THEN NaN
          ELSE IF neg THEN Num(0 - DigitsValue(u, 0)) ELSE Num(DigitsValue(u, 0))

\* ---------------------------------------------------------------------------
\* The relational store (docs/SCHEMA.sql), generated from a few size parameters
\* ---------------------------------------------------------------------------
StateNames == <<"AK", "AL", "AZ">>
\* collation rank of a state code
StateRank(st) == CHOOSE k \in 1..Len(StateNames) : StateNames[k] = st

DigitStr == <<"0", "1", "2", "3", "4", "5", "6", "7", "8", "9">>
BioguideOf(i) ==
  IF i = 1 THEN "A000360"
  ELSE "L0000" \o DigitStr[((i \div 10) % 10) + 1] \o DigitStr[(i % 10) + 1]

\* row i of legislators: senators (district NULL) and representatives, with
\* several rows sharing one (state, district)
LegislatorRow(i) ==
  [id |-> i,
   bioguide_id |-> BioguideOf(i),
   first_name |-> "First",
   last_name |-> "Last",
   full_name |-> "First Last",
   party |-> IF i % 2 = 0 THEN "D" ELSE "R",
   state |-> StateNames[(i % 2) + 1],
   district |-> IF i % 3 = 0 THEN Val(((i \div 3) % 3) + 1) ELSE NULL,
   chamber |-> IF i % 3 = 0 THEN "House" ELSE "Senate",
   portrait_url |-> "https://cdn.example/" \o BioguideOf(i),
   official_website_url |-> "https://example.gov",
   office_contact |-> NULL,
   bio_snapshot |-> "bio text"]

LegislatorsTable(nl) == {LegislatorRow(i) : i \in 1..nl}

\* legislator 1 has nt terms, the latest one open-ended; legislator 2 has one
ServiceStart(k) == 2019 - 6 * (k - 1)
ServiceTable(nt) ==
  {[id |-> k, legislator_id |-> 1, start_date |-> ServiceStart(k),
    end_date |-> IF k = 1 THEN NULL ELSE Val(ServiceStart(k - 1)),
    chamber |-> "Senate"] : k \in 1..nt}
  \cup {[id |-> nt + 1, legislator_id |-> 2, start_date |-> 2021,
         end_date |-> NULL, chamber |-> "Senate"]}

CommitteeTable ==
  {[id |-> 1, legislator_id |-> 1, congress |-> 118, committee_name |-> "Finance",
    subcommittee_name |-> NULL, role |-> "Member"],
   [id |-> 2, legislator_id |-> 2, congress |-> 118, committee_name |-> "Finance",
    subcommittee_name |-> NULL, role |-> "Chair"],
   [id |-> 3, legislator_id |-> 1, congress |-> 118, committee_name |-> "Budget",
    subcommittee_name |-> Val("Oversight"), role |-> "Member"]}

LeadershipTable ==
  {[id |-> 1, legislator_id |-> 2, congress |-> 118, role |-> "Whip"],
   [id |-> 2, legislator_id |-> 1, congress |-> 117, role |-> "Caucus Chair"]}

\* date_introduced is a nullable DATE: every fifth bill has none; dates repeat
BillDate(k) == IF k % 5 = 0 THEN NULL ELSE Val(2020 + (k % 4))
BillTable(nb) ==
  {[id |-> k, legislator_id |-> 1, bill_number |-> k,
    sponsorship_type |-> IF k % 2 = 0 THEN "Cosponsor" ELSE "Sponsor",
    title |-> "An Act", status |-> "Introduced",
    date_introduced |-> BillDate(k)] : k \in 1..nb}
  \cup {[id |-> nb + 1, legislator_id |-> 2, bill_number |-> 1,
         sponsorship_type |-> "Sponsor", title |-> "An Act",
         status |-> "Introduced", date_introduced |-> Val(2024)],
        [id |-> nb + 2, legislator_id |-> 2, bill_number |-> 2,
         sponsorship_type |-> "Sponsor", title |-> "An Act",
         status |-> "Introduced", date_introduced |-> NULL]}

\* one row per (legislator, cycle); legislator 1 has nc cycles, legislator 2
\* has the 2026 cycle, stored first
CycleOf(j) == 2018 + 2 * j
FinanceTable(nc) ==
  {[id |-> 1, legislator_id |-> 2, cycle |-> 2026, total_raised |-> 999,
    industry_breakdown |-> NULL]}
  \cup {[id |-> j + 1, legislator_id |-> 1, cycle |-> CycleOf(j),
         total_raised |-> 100 * j, industry_breakdown |-> NULL] : j \in 1..nc}

\* vote_sessions.date is NOT NULL; several sessions share a date
VoteCasts == <<"Yea", "Nay", "Present">>
SessionTable(nv) ==
  {[id |-> s, date |-> 2020 + (s % 3),
    bill_id |-> IF s % 4 = 0 THEN NULL ELSE Val(s)] : s \in 1..nv}
  \cup {[id |-> nv + 1, date |-> 2025, bill_id |-> NULL]}

\* legislator 1 votes in sessions 1..nv, legislator 2 in the odd ones and in
\* the latest session nv+1
VoteRecordTable(nv) ==
  {[id |-> s, vote_session_id |-> s, legislator_id |-> 1,
    vote_cast |-> VoteCasts[(s % 3) + 1]] : s \in 1..nv}
  \cup {[id |-> nv + s, vote_session_id |-> s, legislator_id |-> 2,
         vote_cast |-> "Not Voting"] : s \in {t \in 1..(nv + 1) : t % 2 = 1 \/ t = nv + 1}}

Store(nl, nt, nb, nc, nv) ==
  [legislators |-> LegislatorsTable(nl),
   service_history |-> ServiceTable(nt),
   committee_assignments |-> CommitteeTable,
   leadership_roles |-> LeadershipTable,
   bill_sponsorships |-> BillTable(nb),
   campaign_finance |-> FinanceTable(nc),
   vote_sessions |-> SessionTable(nv),
   vote_records |-> VoteRecordTable(nv)]

\* ---------------------------------------------------------------------------
\* The queries of routes/legislators.js
\* ---------------------------------------------------------------------------
\* Rows that an ORDER BY leaves tied, and the rows of a query without ORDER BY,
\* come out in the order of the scan the planner picks: by ascending or by
\* descending row id here.
ScanOrders == {"fwd", "bwd"}
Phys(scan, a, b) == IF scan = "fwd" THEN a.id < b.id ELSE a.id > b.id

Min(a, b) == IF a < b THEN a ELSE b

\* the elements of S as a sequence ordered by the strict total order before,
\* a set of pairs <<x, y>> with x ahead of y
Ordered(S, before) ==
  LET rank == [r \in S |-> Cardinality({x \in S : <<x, r>> \in before})]
  IN [i \in 1..Cardinality(S) |-> CHOOSE r \in S : rank[r] = i - 1]

\* LIMIT n
Take(rows, n) == SubSeq(rows, 1, Min(n, Len(rows)))

\* LIMIT n OFFSET off
Slice(rows, n, off) == SubSeq(rows, off + 1, Min(off + n, Len(rows)))

\* decimal text of a natural number, as the driver returns a bigint
RECURSIVE ToDecimal(_)
ToDecimal(n) ==
  IF n < 10 THEN <<DigitStr[n + 1]>>
  ELSE Append(ToDecimal(n \div 10), DigitStr[(n % 10) + 1])

\* a header conversion that keeps the last digit only
HeaderTextLastDigit(n) == <<DigitStr[(n % 10) + 1]>>

\* res.set(name, value) sends String(value)
HeaderText(n) == ToDecimal(n)

\* SELECT COUNT(*) FROM legislators
CountQuery(db) == <<[count |-> ToDecimal(Cardinality(db.legislators))]>>

\* ORDER BY state, district NULLS LAST
ListKeyLess(a, b) ==
  \/ StateRank(a.state) < StateRank(b.state)
  \/ /\ a.state = b.state
     /\ \/ (~a.district.isnull /\ b.district.isnull)
        \/ (~a.district.isnull /\ ~b.district.isnull
              /\ a.district.val < b.district.val)

ListBefore(scan, a, b) ==
  \/ ListKeyLess(a, b)
  \/ (~ListKeyLess(b, a) /\ Phys(scan, a, b))

ListColumns ==
  {"bioguide_id", "full_name", "party", "state", "district", "chamber",
   "portrait_url", "official_website_url", "office_contact", "bio_snapshot"}

\* an offset that skips the first page
OffsetOffByOne(page, pageSize) == page * pageSize

\* (page - 1) * pageSize
Offset(page, pageSize) == (page - 1) * pageSize

\* the store rejects a negative LIMIT or OFFSET
PageQueryRejected(limit, offset) == limit < 0 \/ offset < 0

\* the message it rejects with: OFFSET is evaluated before LIMIT
PageQueryError(limit, offset) ==
  IF offset < 0 THEN "OFFSET must not be negative" ELSE "LIMIT must not be negative"

\* SELECT ... FROM legislators ORDER BY state, district NULLS LAST
\* LIMIT $1 OFFSET $2   (the source rows, before projection)
ListPageRows(db, limit, offset, scan) ==
  LET T == db.legislators
  IN Slice(Ordered(T, {p \in T \X T : ListBefore(scan, p[1], p[2])}),
           limit, offset)

ListProject(row) == [c \in ListColumns |-> row[c]]

ListPageQuery(db, limit, offset, scan) ==
  LET src == ListPageRows(db, limit, offset, scan)
  IN [i \in 1..Len(src) |-> ListProject(src[i])]

PortraitPath(bioguide_id) == "/portraits/" \o bioguide_id \o ".jpg"

\* a list response that returns result.rows as they are stored
ListItemsAsStored(rows) == rows

\* result.rows.map(row => ({...row, portrait_url: `/portraits/${id}.jpg`}))
ListItems(rows) ==
  [i \in 1..Len(rows) |->
     [rows[i] EXCEPT !.portrait_url = PortraitPath(rows[i].bioguide_id)]]

\* 1) SELECT l.id AS id, ... l.bio_snapshot AS bio FROM legislators l
\*    WHERE l.bioguide_id = $1
CoreProject(r) ==
  [id |-> r.id, bioguide_id |-> r.bioguide_id, first_name |-> r.first_name,
   last_name |-> r.last_name, party |-> r.party, state |-> r.state,
   district |-> r.district, chamber |-> r.chamber,
   portrait_url |-> r.portrait_url,
   official_website_url |-> r.official_website_url,
   office_contact |-> r.office_contact, bio |-> r.bio_snapshot]

\* the core query without its WHERE clause
CoreQueryUnfiltered(db, bioguide_id, scan) ==
  LET T == db.legislators
      src == Ordered(T, {p \in T \X T : Phys(scan, p[1], p[2])})
  IN [i \in 1..Len(src) |-> CoreProject(src[i])]

CoreQuery(db, bioguide_id, scan) ==
  LET T == {r \in db.legislators : r.bioguide_id = bioguide_id}
      src == Ordered(T, {p \in T \X T : Phys(scan, p[1], p[2])})
  IN [i \in 1..Len(src) |-> CoreProject(src[i])]

\* a service-history query that orders by start date ascending
ServiceBeforeAscending(scan, a, b) ==
  \/ a.start_date < b.start_date
  \/ (a.start_date = b.start_date /\ Phys(scan, a, b))

\* 2) ... FROM service_history WHERE legislator_id = $1 ORDER BY start_date DESC
ServiceBefore(scan, a, b) ==
  \/ a.start_date > b.start_date
  \/ (a.start_date = b.start_date /\ Phys(scan, a, b))

ServiceHistoryQuery(db, legislatorId, scan) ==
  LET T == {r \in db.service_history : r.legislator_id = legislatorId}
      src == Ordered(T, {p \in T \X T : ServiceBefore(scan, p[1], p[2])})
  IN [i \in 1..Len(src) |->
        [chamber |-> src[i].chamber, start_date |-> src[i].start_date,
         end_date |-> src[i].end_date]]

\* the committee lookup without its WHERE clause
CommitteesQueryUnfiltered(db, legislatorId, scan) ==
  LET T == db.committee_assignments
      src == Ordered(T, {p \in T \X T : Phys(scan, p[1], p[2])})
  IN [i \in 1..Len(src) |->
        [committee_id |-> src[i].id, name |-> src[i].committee_name,
         role |-> src[i].role, congress |-> src[i].congress,
         subcommittee_name |-> src[i].subcommittee_name]]

\* 3) ... FROM committee_assignments WHERE legislator_id = $1
CommitteesQuery(db, legislatorId, scan) ==
  LET T == {r \in db.committee_assignments : r.legislator_id = legislatorId}
      src == Ordered(T, {p \in T \X T : Phys(scan, p[1], p[2])})
  IN [i \in 1..Len(src) |->
        [committee_id |-> src[i].id, name |-> src[i].committee_name,
         role |-> src[i].role, congress |-> src[i].congress,
         subcommittee_name |-> src[i].subcommittee_name]]

\* 4) ... FROM leadership_roles WHERE legislator_id = $1
LeadershipQuery(db, legislatorId, scan) ==
  LET T == {r \in db.leadership_roles : r.legislator_id = legislatorId}
      src == Ordered(T, {p \in T \X T : Phys(scan, p[1], p[2])})
  IN [i \in 1..Len(src) |->
        [leadership_id |-> src[i].id, congress |-> src[i].congress,
         title |-> src[i].role]]

\* ORDER BY date_introduced DESC: a descending sort puts NULLs first
DateDescLess(a, b) ==
  \/ (a.isnull /\ ~b.isnull)
  \/ (~a.isnull /\ ~b.isnull /\ a.val > b.val)

BillBefore(scan, a, b) ==
  \/ DateDescLess(a.date_introduced, b.date_introduced)
  \/ (~DateDescLess(b.date_introduced, a.date_introduced) /\ Phys(scan, a, b))

\* 5) ... FROM bill_sponsorships WHERE legislator_id = $1
\*    ORDER BY date_introduced DESC LIMIT 10   (the source rows)
BillRows(db, legislatorId, scan) ==
  LET T == {r \in db.bill_sponsorships : r.legislator_id = legislatorId}
  IN Take(Ordered(T, {p \in T \X T : BillBefore(scan, p[1], p[2])}),
          BillLimit)

BillProject(r) ==
  [bill_id |-> r.bill_number, title |-> r.title, type |-> r.sponsorship_type,
   status |-> r.status, date |-> r.date_introduced]

BillsQuery(db, legislatorId, scan) ==
  LET src == BillRows(db, legislatorId, scan)
  IN [i \in 1..Len(src) |-> BillProject(src[i])]

\* 6) SELECT cycle, total_raised AS total_contributions,
\*    industry_breakdown AS top_industries FROM campaign_finance
\*    WHERE legislator_id = $1
FinanceRows(db, legislatorId, scan) ==
  LET T == {r \in db.campaign_finance : r.legislator_id = legislatorId}
  IN Ordered(T, {p \in T \X T : Phys(scan, p[1], p[2])})

FinanceQuery(db, legislatorId, scan) ==
  LET src == FinanceRows(db, legislatorId, scan)
  IN [i \in 1..Len(src) |->
        [cycle |-> src[i].cycle, total_contributions |-> src[i].total_raised,
         top_industries |-> src[i].industry_breakdown]]

\* finance.rows[0] || null
FinanceSummaryOrNull(rows) == ObjOr(First(rows), NULL)

\* finance.rows[0] || {}
FinanceSummary(rows) == ObjOr(First(rows), EmptyObject)

\* 7) ... FROM vote_records vr JOIN vote_sessions vs ON vr.vote_session_id = vs.id
\*    WHERE vr.legislator_id = $1 ORDER BY vs.date DESC LIMIT 20
\*    (the joined source rows)
VoteJoin(db, legislatorId) ==
  {j \in [vr : db.vote_records, vs : db.vote_sessions] :
     j.vr.vote_session_id = j.vs.id /\ j.vr.legislator_id = legislatorId}

\* ORDER BY vs.date without DESC
VoteBeforeAscending(scan, a, b) ==
  \/ a.vs.date < b.vs.date
  \/ (a.vs.date = b.vs.date /\ Phys(scan, a.vr, b.vr))

VoteBefore(scan, a, b) ==
  \/ a.vs.date > b.vs.date
  \/ (a.vs.date = b.vs.date /\ Phys(scan, a.vr, b.vr))

VoteRows(db, legislatorId, scan) ==
  LET T == VoteJoin(db, legislatorId)
  IN Take(Ordered(T, {p \in T \X T : VoteBefore(scan, p[1], p[2])}),
          VoteLimit)

VoteProject(j) ==
  [date |-> j.vs.date, bill |-> j.vs.bill_id, position |-> j.vr.vote_cast,
   vote_session_id |-> j.vr.vote_session_id]

VotesQuery(db, legislatorId, scan) ==
  LET src == VoteRows(db, legislatorId, scan)
  IN [i \in 1..Len(src) |-> VoteProject(src[i])]

\* ---------------------------------------------------------------------------
\* State
\* ---------------------------------------------------------------------------
VARIABLES
  db,          \* the relational store
  req,         \* the request being handled
  pc,          \* position of its handler: the query it awaits next
  loc,         \* the handler's locals other than legislator
  legislator,  \* the profile object under assembly
  responses,   \* the responses sent for the request, in order
  queries,     \* the tables queried for the request, in order
  fault,       \* the query of this request on which the store failed
  prev,        \* the previous exchange, when the client kept it
  err,         \* the message of the error the store threw at this request
  started,     \* the store as it was when the request was received
  corr,        \* what the correlation middleware set for the request
  etl,         \* the POST /api/etl/legislators request in flight
  job,         \* the FEC mapping job
  fec,         \* the fec_candidates table
  cors,        \* the CORS allow-list and its verdict on the request
  ui           \* the browser client: its components' state and fetches

vars == <<db, req, pc, loc, legislator, responses, queries, fault, prev,
          err, started, corr, etl, job, fec, cors, ui>>

\* what the list and profile handlers never touch
others == <<etl, job, fec, ui>>

NoRequest == [kind |-> "none"]
NoLocals == [x \in {} |-> TRUE]
NoExchange == [x \in {} |-> TRUE]
NoStore == [x \in {} |-> TRUE]
NoCorrelation == [x \in {} |-> TRUE]
NoEtlRequest == [pc |-> "idle", responses |-> <<>>]
NoJob == [pc |-> "off"]
NoClient == [x \in {} |-> TRUE]

\* a string that is neither undefined nor empty
Truthy(v) == v.present /\ Len(v.text) > 0

\* s.split(','): the pieces between the commas, empty pieces included
RECURSIVE SplitFrom(_, _, _)
SplitFrom(s, piece, pieces) ==
  IF Len(s) = 0
    THEN Append(pieces, piece)
    ELSE IF s[1] = ","
           THEN SplitFrom(Tail(s), <<>>, Append(pieces, piece))
           ELSE SplitFrom(Tail(s), Append(piece, s[1]), pieces)
Split(s) == SplitFrom(s, <<>>, <<>>)

\* const allowedOrigins = []; the two pushes, each under its if
allowedOrigins(env) ==
  (IF Truthy(env.FRONTEND_ORIGIN) THEN <<env.FRONTEND_ORIGIN.text>> ELSE <<>>) \o
  (IF Truthy(env.ADDITIONAL_ORIGINS) THEN Split(env.ADDITIONAL_ORIGINS.text) ELSE <<>>)

\* process.env without the two variables
NoEnv == [FRONTEND_ORIGIN |-> Absent, ADDITIONAL_ORIGINS |-> Absent]

\* the server as started under env: the allow-list, and no request checked
Bootstrapped(env) ==
  [env |-> env, allowedOrigins |-> allowedOrigins(env), checked |-> FALSE]

\* messages of the errors a failing query rejects with
Errors == {"connection terminated unexpectedly", "canceling statement due to statement timeout"}

Response(status, headers, body) ==
  [status |-> status, headers |-> headers, body |-> body]
NoHeaders == [x \in {} |-> TRUE]

\* a catch block that sends what was assembled so far along with the error
ErrorBodyPartial(msg, partial, e) == [error |-> msg] @@ partial

\* res.status(500).json({ error: msg }) of a catch block; the handler returns
ErrorBody(msg, partial, e) == [error |-> msg]

\* JSON rendering of a number
JsonNum(n) == IF n.nan THEN NULL ELSE n.val

IdleApi(store) ==
  /\ db = store
  /\ req = NoRequest
  /\ pc = "idle"
  /\ loc = NoLocals
  /\ legislator = UNDEF
  /\ responses = <<>>
  /\ queries = <<>>
  /\ fault = "none"
  /\ prev = NoExchange
  /\ err = "none"
  /\ started = NoStore
  /\ corr = NoCorrelation

Idle(store) ==
  /\ IdleApi(store)
  /\ etl = NoEtlRequest
  /\ job = NoJob
  /\ fec = {}
  /\ cors = Bootstrapped(NoEnv)
  /\ ui = NoClient

\* ---------------------------------------------------------------------------
\* GET /api/legislators  (paginated list)
\* ---------------------------------------------------------------------------
ReceiveList(pageParam, pageSizeParam) ==
  /\ pc = "idle"
  /\ LET page == NumOr(parseInt(pageParam), DefaultPage)
         pageSize == NumOr(parseInt(pageSizeParam), DefaultPageSize)
     IN loc' = [page |-> page, pageSize |-> pageSize,
                offset |-> Offset(page, pageSize)]
  /\ req' = [kind |-> "list", page |-> pageParam, pageSize |-> pageSizeParam]
  /\ pc' = "list_count"
  /\ started' = db
  /\ UNCHANGED <<db, legislator, responses, queries, fault, prev, err, corr, cors, others>>

\* a catch block that sends the error's own message, as /debug/portraits does
ListFailureLeaky(e) == Response(500, NoHeaders, [error |-> e])

\* res.status(500).json({ error: 'Failed to fetch legislators' })
ListFailure(e) ==
  Response(500, NoHeaders, ErrorBody("Failed to fetch legislators", EmptyObject, e))

ListCount ==
  /\ pc = "list_count"
  /\ queries' = Append(queries, "legislators")
  /\ \/ /\ loc' = loc @@ [totalCount |-> JsonNum(parseInt(Text(CountQuery(db)[1].count)))]
        /\ pc' = "list_page"
        /\ UNCHANGED <<responses, fault, err>>
     \/ /\ fault' = "count"
        /\ \E e \in Errors :
             /\ err' = e
             /\ responses' = Append(responses, ListFailure(e))
        /\ pc' = "done"
        /\ UNCHANGED loc
  /\ UNCHANGED <<db, req, legislator, prev, started, corr, cors, others>>

ListPage ==
  /\ pc = "list_page"
  /\ queries' = Append(queries, "legislators")
  /\ \/ /\ ~PageQueryRejected(loc.pageSize, loc.offset)
        /\ \E scan \in ScanOrders :
             LET result == ListPageQuery(db, loc.pageSize, loc.offset, scan)
                 items == ListItems(result)
             IN responses' = Append(responses,
                  Response(200, [XTotalCount |-> HeaderText(loc.totalCount)],
                           [items |-> items, totalCount |-> loc.totalCount,
                            page |-> loc.page, pageSize |-> loc.pageSize]))
        /\ UNCHANGED <<fault, err>>
     \/ /\ PageQueryRejected(loc.pageSize, loc.offset)
        /\ err' = PageQueryError(loc.pageSize, loc.offset)
        /\ responses' = Append(responses, ListFailure(err'))
        /\ UNCHANGED fault
     \/ /\ fault' = "page"
        /\ \E e \in Errors :
             /\ err' = e
             /\ responses' = Append(responses, ListFailure(e))
  /\ pc' = "done"
  /\ UNCHANGED <<db, req, loc, legislator, prev, started, corr, cors, others>>

\* ---------------------------------------------------------------------------
\* GET /api/legislators/:bioguide_id  (profile aggregation)
\* ---------------------------------------------------------------------------
ReceiveProfile(bioguide_id) ==
  /\ pc = "idle"
  /\ req' = [kind |-> "profile", bioguide_id |-> bioguide_id]
  /\ pc' = "core"
  /\ started' = db
  /\ UNCHANGED <<db, loc, legislator, responses, queries, fault, prev, err, corr, cors, others>>

\* const { id, ...clientLeg } = coreRes.rows[0]
ClientLeg(row) == [f \in (DOMAIN row) \ {"id"} |-> row[f]]

\* 1) Core legislator row
CoreLegislator ==
  /\ pc = "core"
  /\ queries' = Append(queries, "legislators")
  /\ \/ \E scan \in ScanOrders :
          LET rows == CoreQuery(db, req.bioguide_id, scan)
          IN IF Len(rows) = 0
               THEN /\ responses' = Append(responses,
                         Response(404, NoHeaders, [error |-> "Legislator not found"]))
                    /\ pc' = "done"
                    /\ UNCHANGED <<loc, legislator, fault, err>>
               ELSE /\ loc' = [legislatorId |-> rows[1].id]
                    /\ legislator' =
                         [ClientLeg(rows[1]) EXCEPT
                            !.portrait_url = PortraitPath(req.bioguide_id)]
                    /\ pc' = "service_history"
                    /\ UNCHANGED <<responses, fault, err>>
     \/ /\ fault' = "core"
        /\ \E e \in Errors :
             /\ err' = e
             /\ responses' = Append(responses,
                  Response(500, NoHeaders,
                           ErrorBody("Failed to fetch core legislator info", legislator, e)))
        /\ pc' = "done"
        /\ UNCHANGED <<loc, legislator>>
  /\ UNCHANGED <<db, req, prev, started, corr, cors, others>>

\* 2) Service history
ServiceHistory ==
  /\ pc = "service_history"
  /\ queries' = Append(queries, "service_history")
  /\ \/ /\ \E scan \in ScanOrders :
             legislator' = [service_history |->
                              ServiceHistoryQuery(db, loc.legislatorId, scan)] @@ legislator
        /\ pc' = "committees"
        /\ UNCHANGED <<responses, fault, err>>
     \/ /\ fault' = "service_history"
        /\ \E e \in Errors :
             /\ err' = e
             /\ responses' = Append(responses,
                  Response(500, NoHeaders, ErrorBody("Failed to fetch service history", legislator, e)))
        /\ pc' = "done"
        /\ UNCHANGED legislator
  /\ UNCHANGED <<db, req, loc, prev, started, corr, cors, others>>

\* 3) Committee assignments
Committees ==
  /\ pc = "committees"
  /\ queries' = Append(queries, "committee_assignments")
  /\ \/ /\ \E scan \in ScanOrders :
             legislator' = [committees |->
                              CommitteesQuery(db, loc.legislatorId, scan)] @@ legislator
        /\ pc' = "leadership"
        /\ UNCHANGED <<responses, fault, err>>
     \/ /\ fault' = "committees"
        /\ \E e \in Errors :
             /\ err' = e
             /\ responses' = Append(responses,
                  Response(500, NoHeaders, ErrorBody("Failed to fetch committee assignments", legislator, e)))
        /\ pc' = "done"
        /\ UNCHANGED legislator
  /\ UNCHANGED <<db, req, loc, prev, started, corr, cors, others>>

\* a handler that issues a failed lookup a second time before giving up
LeadershipRetrying ==
  /\ pc = "leadership"
  /\ queries' = Append(queries, "leadership_roles")
  /\ \/ /\ \E scan \in ScanOrders :
             legislator' = [leadership_positions |->
                              LeadershipQuery(db, loc.legislatorId, scan)] @@ legislator
        /\ pc' = "bills"
        /\ UNCHANGED <<responses, fault, err>>
     \/ /\ queries[Len(queries)] # "leadership_roles"
        /\ UNCHANGED <<legislator, responses, fault, err, pc>>
     \/ /\ fault' = "leadership"
        /\ \E e \in Errors :
             /\ err' = e
             /\ responses' = Append(responses,
                  Response(500, NoHeaders, ErrorBody("Failed to fetch leadership roles", legislator, e)))
        /\ pc' = "done"
        /\ UNCHANGED legislator
  /\ UNCHANGED <<db, req, loc, prev, started, corr, cors, others>>

\* 4) Leadership roles
Leadership ==
  /\ pc = "leadership"
  /\ queries' = Append(queries, "leadership_roles")
  /\ \/ /\ \E scan \in ScanOrders :
             legislator' = [leadership_positions |->
                              LeadershipQuery(db, loc.legislatorId, scan)] @@ legislator
        /\ pc' = "bills"
        /\ UNCHANGED <<responses, fault, err>>
     \/ /\ fault' = "leadership"
        /\ \E e \in Errors :
             /\ err' = e
             /\ responses' = Append(responses,
                  Response(500, NoHeaders, ErrorBody("Failed to fetch leadership roles", legislator, e)))
        /\ pc' = "done"
        /\ UNCHANGED legislator
  /\ UNCHANGED <<db, req, loc, prev, started, corr, cors, others>>

\* 5) Sponsored bills
SponsoredBills ==
  /\ pc = "bills"
  /\ queries' = Append(queries, "bill_sponsorships")
  /\ \/ /\ \E scan \in ScanOrders :
             legislator' = [sponsored_bills |->
                              BillsQuery(db, loc.legislatorId, scan)] @@ legislator
        /\ pc' = "finance"
        /\ UNCHANGED <<responses, fault, err>>
     \/ /\ fault' = "bills"
        /\ \E e \in Errors :
             /\ err' = e
             /\ responses' = Append(responses,
                  Response(500, NoHeaders, ErrorBody("Failed to fetch sponsored bills", legislator, e)))
        /\ pc' = "done"
        /\ UNCHANGED legislator
  /\ UNCHANGED <<db, req, loc, prev, started, corr, cors, others>>

\* 6) Campaign finance
CampaignFinance ==
  /\ pc = "finance"
  /\ queries' = Append(queries, "campaign_finance")
  /\ \/ /\ \E scan \in ScanOrders :
             legislator' = [finance_summary |->
                              FinanceSummary(FinanceQuery(db, loc.legislatorId, scan))] @@ legislator
        /\ pc' = "votes"
        /\ UNCHANGED <<responses, fault, err>>
     \/ /\ fault' = "finance"
        /\ \E e \in Errors :
             /\ err' = e
             /\ responses' = Append(responses,
                  Response(500, NoHeaders, ErrorBody("Failed to fetch finance summary", legislator, e)))
        /\ pc' = "done"
        /\ UNCHANGED legislator
  /\ UNCHANGED <<db, req, loc, prev, started, corr, cors, others>>

\* 7) Recent votes, then res.json(legislator)
RecentVotes ==
  /\ pc = "votes"
  /\ queries' = Append(queries, "vote_records")
  /\ \/ /\ \E scan \in ScanOrders :
             /\ legislator' = [recent_votes |->
                                 VotesQuery(db, loc.legislatorId, scan)] @@ legislator
             /\ responses' = Append(responses, Response(200, NoHeaders, legislator'))
        /\ UNCHANGED <<fault, err>>
     \/ /\ fault' = "votes"
        /\ \E e \in Errors :
             /\ err' = e
             /\ responses' = Append(responses,
                  Response(500, NoHeaders, ErrorBody("Failed to fetch recent votes", legislator, e)))
        /\ UNCHANGED legislator
  /\ pc' = "done"
  /\ UNCHANGED <<db, req, loc, prev, started, corr, cors, others>>

\* ---------------------------------------------------------------------------
\* Correlation middleware (utils/correlation.js), mounted before every route
\* ---------------------------------------------------------------------------
WhiteSpace == {" ", "\t"}

RECURSIVE TrimStart(_)
TrimStart(s) == IF Len(s) > 0 /\ s[1] \in WhiteSpace THEN TrimStart(Tail(s)) ELSE s

RECURSIVE TrimEnd(_)
TrimEnd(s) ==
  IF Len(s) > 0 /\ s[Len(s)] \in WhiteSpace
    THEN TrimEnd(SubSeq(s, 1, Len(s) - 1))
    ELSE s

\* String.prototype.trim
Trim(s) == TrimEnd(TrimStart(s))

\* a middleware that takes the incoming header as it is
correlationIdUntrimmed(incoming, uuid) ==
  IF incoming.present /\ Len(incoming.text) > 0 /\ Len(Trim(incoming.text)) > 0
    THEN incoming.text
    ELSE uuid

\* incoming && incoming.trim() ? incoming.trim() : uuidv4()
\* (the empty string is falsy; uuid is what uuidv4() returns when called)
correlationId(incoming, uuid) ==
  IF incoming.present /\ Len(incoming.text) > 0 /\ Len(Trim(incoming.text)) > 0
    THEN Trim(incoming.text)
    ELSE uuid

\* the middleware's part of a request: req.correlationId and the response
\* header are set before any route handler runs
Correlate(incoming, uuid) ==
  /\ pc = "idle"
  /\ corr = NoCorrelation
  /\ corr' = [incoming |-> incoming,
              correlationId |-> correlationId(incoming, uuid),
              XCorrelationID |-> correlationId(incoming, uuid)]
  /\ UNCHANGED <<db, req, pc, loc, legislator, responses, queries, fault, prev,
                 err, started, cors, others>>

\* ---------------------------------------------------------------------------
\* CORS middleware (server.js), mounted after the correlation middleware and
\* before every route
\* ---------------------------------------------------------------------------
includes(list, x) == \E i \in 1..Len(list) : list[i] = x

StartsWith(s, prefix) ==
  Len(s) >= Len(prefix) /\ SubSeq(s, 1, Len(prefix)) = prefix
EndsWith(s, suffix) ==
  Len(s) >= Len(suffix) /\ SubSeq(s, Len(s) - Len(suffix) + 1, Len(s)) = suffix

Https == <<"h", "t", "t", "p", "s", ":", "/", "/">>
VercelApp == <<".", "v", "e", "r", "c", "e", "l", ".", "a", "p", "p">>
OnrenderCom == <<".", "o", "n", "r", "e", "n", "d", "e", "r", ".", "c", "o", "m">>

\* the character class [a-z0-9-]
LabelChars ==
  {"a", "b", "c", "d", "e", "f", "g", "h", "i", "j", "k", "l", "m", "n", "o",
   "p", "q", "r", "s", "t", "u", "v", "w", "x", "y", "z", "-"} \cup DigitChars

\* /^https:\/\/[a-z0-9-]+<suffix>$/.test(s)
AnchoredMatch(s, suffix) ==
  /\ StartsWith(s, Https)
  /\ EndsWith(s, suffix)
  /\ Len(s) > Len(Https) + Len(suffix)
  /\ \A i \in (Len(Https) + 1)..(Len(s) - Len(suffix)) : s[i] \in LabelChars

\* the origin callback with the anchored patterns of the other server.js
OriginAllowedAnchored(origin, allowed) ==
  \/ ~Truthy(origin)
  \/ includes(allowed, origin.text)
  \/ AnchoredMatch(origin.text, VercelApp)
  \/ AnchoredMatch(origin.text, OnrenderCom)

\* origin: (origin, cb) => ...; TRUE for cb(null, true), FALSE for
\* cb(new Error('Not allowed by CORS'), false)
OriginAllowed(origin, allowed) ==
  \/ ~Truthy(origin)
  \/ includes(allowed, origin.text)
  \/ EndsWith(origin.text, VercelApp)
  \/ EndsWith(origin.text, OnrenderCom)

\* the middleware's part of a request; on an error it calls next(err), which
\* skips the routes and ends in the global error handler
Cors(origin) ==
  /\ pc = "idle"
  /\ corr # NoCorrelation
  /\ ~cors.checked
  /\ LET ok == OriginAllowed(origin, cors.allowedOrigins)
     IN /\ cors' = [env |-> cors.env, allowedOrigins |-> cors.allowedOrigins,
                    checked |-> TRUE, origin |-> origin, allowed |-> ok]
        /\ IF ok
             THEN UNCHANGED <<req, pc, responses, err>>
             ELSE /\ req' = [kind |-> "blocked"]
                  /\ err' = "Not allowed by CORS"
                  /\ responses' = Append(responses,
                       Response(500, NoHeaders, [error |-> "Internal Server Error"]))
                  /\ pc' = "done"
  /\ UNCHANGED <<db, loc, legislator, queries, fault, prev, started, corr, others>>

\* the request has passed the middleware mounted before the routes
Admitted == corr # NoCorrelation /\ cors.checked /\ cors.allowed

\* ---------------------------------------------------------------------------
\* Placeholder routes and the health check
\* ---------------------------------------------------------------------------
SampleBills == <<[bill_number |-> "H.R.1234", status |-> "Introduced"]>>
SampleVotes == <<[vote_id |-> "house-118-1-123", position |-> "Yea"]>>
SampleFinance == <<[legislator_id |-> 1, total_received |-> 2500000]>>

\* app.use('/api/legislators', ...): the router runs after the middleware
ListRoute(pageParam, pageSizeParam) ==
  /\ Admitted
  /\ ReceiveList(pageParam, pageSizeParam)

ProfileRoute(bioguide_id) ==
  /\ Admitted
  /\ ReceiveProfile(bioguide_id)

\* a synchronous handler that answers with a constant
Static(kind, body) ==
  /\ pc = "idle"
  /\ Admitted
  /\ req' = [kind |-> kind]
  /\ responses' = Append(responses, Response(200, NoHeaders, body))
  /\ pc' = "done"
  /\ started' = db
  /\ UNCHANGED <<db, loc, legislator, queries, fault, prev, err, corr, cors, others>>

GetBills == Static("bills", SampleBills)
GetVotes == Static("votes", SampleVotes)
GetFinance == Static("finance", SampleFinance)
Health == Static("health", "Congressional Accountability API is running")

\* ---------------------------------------------------------------------------
\* POST /api/etl/legislators  (routes/etl.js), a request of its own that runs
\* next to the one above
\* ---------------------------------------------------------------------------
api == <<req, pc, loc, legislator, responses, queries, fault, prev, err,
         started, corr, cors>>

\* what the external source holds: a legislator the store knows, with another
\* party and portrait, and one it does not know
ExternalLegislators ==
  {[LegislatorRow(1) EXCEPT !.party = "I",
                            !.portrait_url = "https://cdn.example/new/A000360"],
   [LegislatorRow(1) EXCEPT !.bioguide_id = "N000001",
                            !.portrait_url = "https://cdn.example/new/N000001"]}

\* INSERT INTO legislators ... ON CONFLICT (bioguide_id) DO UPDATE: the row of
\* that bioguide_id takes the record's columns and keeps its id; a record of
\* an unknown bioguide_id becomes a new row
UpsertLegislator(table, rec) ==
  IF \E r \in table : r.bioguide_id = rec.bioguide_id
    THEN {IF r.bioguide_id = rec.bioguide_id THEN [rec EXCEPT !.id = r.id] ELSE r :
            r \in table}
    ELSE table \cup {[rec EXCEPT !.id = Cardinality(table) + 1]}

ReceiveEtl(incoming, uuid) ==
  /\ etl.pc = "idle"
  /\ etl' = [pc |-> "running", variant |-> "promise", responses |-> <<>>,
             correlationId |-> correlationId(incoming, uuid),
             XCorrelationID |-> correlationId(incoming, uuid),
             incoming |-> incoming]
  /\ UNCHANGED <<db, api, job, fec, ui>>

\* await runLegislatorETL(): one of its writes
EtlUpsert(rec) ==
  /\ etl.pc = "running"
  /\ db' = [db EXCEPT !.legislators = UpsertLegislator(@, rec)]
  /\ UNCHANGED <<api, etl, job, fec, ui>>

\* the run ends: the promise resolves, or it rejects and the catch answers
EtlRespond ==
  /\ etl.pc = "running"
  /\ etl.variant = "promise"
  /\ \/ etl' = [pc |-> "done", outcome |-> [promise |-> "resolved"],
                 responses |-> Append(etl.responses, Response(200, NoHeaders,
                                  [message |-> "Legislator ETL completed."]))] @@ etl
     \/ etl' = [pc |-> "done", outcome |-> [promise |-> "rejected"],
                 responses |-> Append(etl.responses, Response(500, NoHeaders,
                                  [error |-> "ETL failed"]))] @@ etl
  /\ UNCHANGED <<db, api, job, fec, ui>>

EtlComplete ==
  /\ etl.pc = "done"
  /\ etl' = NoEtlRequest
  /\ UNCHANGED <<db, api, job, fec, ui>>

\* ---------------------------------------------------------------------------
\* The FEC mapping job (etl, Python)
\* ---------------------------------------------------------------------------
\* Python values of the fields of a JSON record and of a result row
PyNone == [none |-> TRUE]
PyStr(s) == [str |-> s]
PyInt(n) == [int |-> n]
IsNone(v) == "none" \in DOMAIN v

CYCLES == <<2020, 2022, 2024>>
OFFICES == <<"H", "S">>
COLUMNS ==
  <<"fec_id", "bioguide_id", "name", "office", "state", "district", "cycle",
    "last_updated">>
CONFLICT_COLS == <<"fec_id">>

\* the k-th (cycle, office) of main's nested loops
NumCombos == Len(CYCLES) * Len(OFFICES)
Combo(k) ==
  [cycle |-> CYCLES[((k - 1) \div Len(OFFICES)) + 1],
   office |-> OFFICES[((k - 1) % Len(OFFICES)) + 1]]

\* str.lower() of the names that occur
Lower(s) ==
  CASE s = "First Last" -> "first last"
    [] s = "FIRST LAST" -> "first last"
    [] s = "Other Name" -> "other name"
    [] OTHER -> s

\* a nullable INT column as the driver returns it
PyOfDistrict(d) == IF d.isnull THEN PyNone ELSE PyInt(d.val)

\* build_legislator_lookup: the dict as its assignments in fetch order; a
\* later assignment to a key replaces an earlier one
build_legislator_lookup(store, scan) ==
  LET T == store.legislators
      rows == Ordered(T, {p \in T \X T : Phys(scan, p[1], p[2])})
  IN [i \in 1..Len(rows) |->
        [key |-> <<Lower(rows[i].full_name), PyStr(rows[i].state),
                   PyOfDistrict(rows[i].district)>>,
         bioguide |-> rows[i].bioguide_id]]

\* lookup.get(key)
LookupGet(lookup, key) ==
  LET hits == {i \in 1..Len(lookup) : lookup[i].key = key}
  IN IF hits = {} THEN PyNone
     ELSE PyStr(lookup[CHOOSE i \in hits : \A j \in hits : j <= i].bioguide)

\* rec.get("district") if rec.get("district") not in (None, "", "00") else None
NormalDistrict(d) ==
  IF IsNone(d) THEN PyNone
  ELSE IF d.str \in {"", "00"} THEN PyNone ELSE d

\* the loop of normalize_and_map from the records left, with the rows and the
\* number of warnings so far; name.lower() raises AttributeError on None
RECURSIVE MapFrom(_, _, _, _, _, _, _)
MapFrom(records, lookup, cycle, office_code, now, rows, warnings) ==
  IF Len(records) = 0
    THEN [status |-> "returned", rows |-> rows, warnings |-> warnings]
    ELSE LET rec == Head(records)
             district == NormalDistrict(rec.district)
         IN IF IsNone(rec.name)
              THEN [status |-> "raised", rows |-> rows, warnings |-> warnings]
              ELSE LET key == <<Lower(rec.name.str), rec.state, district>>
                       bioguide == LookupGet(lookup, key)
                   IN IF IsNone(bioguide) \/ bioguide = PyStr("")
                        THEN MapFrom(Tail(records), lookup, cycle, office_code,
                                     now, rows, warnings + 1)
                        ELSE MapFrom(Tail(records), lookup, cycle, office_code, now,
                                     Append(rows,
                                       [fec_id |-> rec.candidate_id,
                                        bioguide_id |-> bioguide,
                                        name |-> rec.name,
                                        office |-> office_code,
                                        state |-> rec.state,
                                        district |-> district,
                                        cycle |-> cycle,
                                        last_updated |-> now]),
                                     warnings)

normalize_and_map(records, lookup, cycle, office_code, now) ==
  MapFrom(records, lookup, cycle, office_code, now, <<>>, 0)

\* d.get(key, default)
GetOr(d, key, default) == IF key \in DOMAIN d THEN d[key] ELSE default

\* the number of pages of n records, per_page a page
PageCount(n, per_page) == (n + per_page - 1) \div per_page

\* utils.load_json_from_url(url): the source's answer to a request for one
\* page of the candidates of an office, and the page count it reports with it
load_json_from_url(feed, reported, cycle, office, per_page, page) ==
  LET records == feed[office]
      results == Slice(records, per_page, (page - 1) * per_page)
      pages == PageCount(Len(records), per_page)
  IN IF reported = "none"
       THEN [results |-> results]
       ELSE [results |-> results,
             pagination |-> [pages |-> IF reported = "over" THEN pages + 1 ELSE pages]]

\* a loop that goes on until a page comes back empty
LastPageIgnored(page, pagination) == FALSE

\* if page >= pagination.get("pages", 0): break
LastPage(page, pagination) == page >= GetOr(pagination, "pages", 0)

\* the unique constraints of fec_candidates: PRIMARY KEY (fec_id, cycle)
UniqueConstraints == {{"fec_id", "cycle"}}

Columns(cols) == {cols[i] : i \in 1..Len(cols)}
KeyOf(row, cols) == [c \in Columns(cols) |-> row[c]]

\* INSERT ... ON CONFLICT (conflict_cols) DO UPDATE is rejected when no unique
\* constraint is on just those columns, and when two rows of the statement
\* have the same values in them
BulkUpsertRejected(rows, conflict_cols) ==
  \/ Columns(conflict_cols) \notin UniqueConstraints
  \/ \E i, j \in 1..Len(rows) :
        i # j /\ KeyOf(rows[i], conflict_cols) = KeyOf(rows[j], conflict_cols)

\* otherwise each row replaces the table's row of its key or is added
bulk_upsert(table, rows, columns, conflict_cols) ==
  {t \in table : \A i \in 1..Len(rows) :
                    KeyOf(t, conflict_cols) # KeyOf(rows[i], conflict_cols)}
    \cup {rows[i] : i \in 1..Len(rows)}

NoCall == [x \in {} |-> TRUE]

\* the job before it is run, with the records the external source holds and
\* the way the source reports its page count
Scheduled(feed, reported) == [pc |-> "off", feed |-> feed, reported |-> reported]

\* python fec_mapping_etl.py
JobStart ==
  /\ job.pc = "off"
  /\ job' = [pc |-> "lookup", feed |-> job.feed, reported |-> job.reported,
             run |-> 1, now |-> 1, lookup |-> <<>>, k |-> 1, page |-> 1,
             candidates |-> <<>>, fetched |-> <<>>, all_rows |-> <<>>,
             last |-> NoCall, upserts |-> 0, raised |-> "none", kept |-> {},
             before |-> fec]
  /\ UNCHANGED <<db, api, etl, fec, ui>>

\* lookup = build_legislator_lookup()
JobLookup ==
  /\ job.pc = "lookup"
  /\ \E scan \in ScanOrders :
       job' = [job EXCEPT !.pc = "fetch",
                          !.lookup = build_legislator_lookup(db, scan)]
  /\ UNCHANGED <<db, api, etl, fec, ui>>

\* fetch_candidates(cycle, office): one round of its loop, a request for the
\* next page; an exception of the request ends the process
JobFetch ==
  /\ job.pc = "fetch"
  /\ LET c == Combo(job.k)
         data == load_json_from_url(job.feed, job.reported, c.cycle, c.office,
                                    FEC_PAGE_SIZE, job.page)
         results == GetOr(data, "results", <<>>)
         pagination == GetOr(data, "pagination", EmptyObject)
         fetched == Append(job.fetched, [page |-> job.page, data |-> data])
     IN \/ job' = IF Len(results) = 0
                     THEN [job EXCEPT !.fetched = fetched, !.pc = "map"]
                     ELSE IF LastPage(job.page, pagination)
                            THEN [job EXCEPT !.fetched = fetched,
                                             !.candidates = @ \o results,
                                             !.pc = "map"]
                            ELSE [job EXCEPT !.fetched = fetched,
                                             !.candidates = @ \o results,
                                             !.page = @ + 1]
        \/ job' = [job EXCEPT !.pc = "failed", !.raised = "fetch"]
  /\ UNCHANGED <<db, api, etl, fec, ui>>

\* a job that writes the rows of each cycle and office as soon as they are
\* mapped
JobMapWriting ==
  /\ job.pc = "map"
  /\ LET c == Combo(job.k)
         records == job.candidates
         result == normalize_and_map(records, job.lookup, c.cycle, c.office, job.now)
         call == [records |-> records, result |-> result]
     IN IF result.status = "raised"
          THEN /\ job' = [job EXCEPT !.pc = "failed", !.last = call, !.raised = "map"]
               /\ UNCHANGED fec
          ELSE /\ job' = [job EXCEPT !.all_rows = @ \o result.rows,
                                     !.k = @ + 1,
                                     !.page = 1, !.candidates = <<>>, !.fetched = <<>>,
                                     !.pc = IF job.k = NumCombos THEN "done" ELSE "fetch",
                                     !.upserts = @ + 1,
                                     !.last = call]
               /\ fec' = bulk_upsert(fec, result.rows, COLUMNS, <<"fec_id", "cycle">>)
  /\ UNCHANGED <<db, api, etl, ui>>

\* the rest of a round of main's loops, records = fetch_candidates(...) being
\* there: map, all_rows.extend(rows); an exception of the mapping ends the
\* process
JobMap ==
  /\ job.pc = "map"
  /\ LET c == Combo(job.k)
         records == job.candidates
         result == normalize_and_map(records, job.lookup, c.cycle, c.office, job.now)
         call == [records |-> records, result |-> result]
     IN /\ job' = IF result.status = "raised"
                    THEN [job EXCEPT !.pc = "failed", !.last = call, !.raised = "map"]
                    ELSE [job EXCEPT !.all_rows = @ \o result.rows,
                                     !.k = @ + 1,
                                     !.page = 1, !.candidates = <<>>, !.fetched = <<>>,
                                     !.pc = IF job.k = NumCombos THEN "upsert" ELSE "fetch",
                                     !.last = call]
        /\ UNCHANGED fec
  /\ UNCHANGED <<db, api, etl, ui>>

\* if not all_rows: return; else one bulk upsert
JobUpsert ==
  /\ job.pc = "upsert"
  /\ IF Len(job.all_rows) = 0
       THEN job' = [job EXCEPT !.pc = "done"] /\ UNCHANGED fec
       ELSE IF BulkUpsertRejected(job.all_rows, CONFLICT_COLS)
              THEN /\ job' = [job EXCEPT !.pc = "failed", !.upserts = @ + 1,
                                         !.raised = "upsert"]
                   /\ UNCHANGED fec
              ELSE /\ fec' = bulk_upsert(fec, job.all_rows, COLUMNS, CONFLICT_COLS)
                   /\ job' = [job EXCEPT !.pc = "done", !.upserts = @ + 1]
  /\ UNCHANGED <<db, api, etl, ui>>

\* fec_candidates without the time of the write
Stable(table) ==
  {[c \in (DOMAIN r) \ {"last_updated"} |-> r[c]] : r \in table}

\* the job is run again, later, on the same records
JobRerun ==
  /\ job.pc \in {"done", "failed"}
  /\ job.run < MaxRuns
  /\ job' = [job EXCEPT !.pc = "lookup", !.run = @ + 1, !.now = @ + 1,
                        !.lookup = <<>>, !.k = 1, !.page = 1,
                        !.candidates = <<>>, !.fetched = <<>>, !.all_rows = <<>>,
                        !.last = NoCall, !.upserts = 0, !.raised = "none",
                        !.kept = Stable(fec), !.before = fec]
  /\ UNCHANGED <<db, api, etl, fec, ui>>

\* ---------------------------------------------------------------------------
\* End of a request
\* ---------------------------------------------------------------------------
Reset ==
  /\ req' = NoRequest
  /\ pc' = "idle"
  /\ loc' = NoLocals
  /\ legislator' = UNDEF
  /\ responses' = <<>>
  /\ queries' = <<>>
  /\ fault' = "none"
  /\ err' = "none"
  /\ started' = NoStore
  /\ corr' = NoCorrelation
  /\ cors' = Bootstrapped(cors.env)

\* the handler has returned; the next request starts from fresh locals
Complete ==
  /\ pc = "done"
  /\ Reset
  /\ UNCHANGED <<db, prev, others>>

\* the same, with a client that keeps the exchange to compare the next with
CompleteAndKeep ==
  /\ pc = "done"
  /\ prev' = [req |-> req, res |-> responses[1], fault |-> fault, err |-> err,
               db |-> db]
  /\ Reset
  /\ UNCHANGED <<db, others>>

\* ---------------------------------------------------------------------------
\* POST /legislators, the variant that runs the ETL script as a child process
\* (routes/finance.js, second module)
\* ---------------------------------------------------------------------------
\* exit codes of the script, and null for a child ended by a signal
ExitCodes == {Val(0), Val(1), NULL}
Streams == {"stdout", "stderr"}

\* const python = spawn('python3', [scriptPath]); the data and close
\* listeners are registered, no listener for 'error'
SpawnEtl(incoming, uuid) ==
  /\ etl.pc = "idle"
  /\ etl' = [pc |-> "spawned", variant |-> "spawn", responses |-> <<>>,
             correlationId |-> correlationId(incoming, uuid),
             XCorrelationID |-> correlationId(incoming, uuid),
             incoming |-> incoming, output |-> <<>>, errorOutput |-> <<>>]
  /\ UNCHANGED <<db, api, job, fec, ui>>

\* the child process has started
ChildRuns ==
  /\ etl.pc = "spawned"
  /\ etl' = [etl EXCEPT !.pc = "running"]
  /\ UNCHANGED <<db, api, job, fec, ui>>

\* python3 cannot be started: the child emits 'error', which has no listener,
\* so the emitter throws and the server process exits, with the requests it
\* was handling
ChildError ==
  /\ etl.pc = "spawned"
  /\ etl' = [pc |-> "crashed", outcome |-> [spawn |-> "failed"]] @@ etl
  /\ Reset
  /\ UNCHANGED <<db, prev, job, fec, ui>>

\* python.stdout.on('data', ...) and python.stderr.on('data', ...)
ChildData(stream) ==
  /\ etl.pc = "running"
  /\ etl.variant = "spawn"
  /\ Len(etl.output) + Len(etl.errorOutput) < MaxChunks
  /\ etl' = IF stream = "stdout"
              THEN [etl EXCEPT !.output = Append(@, "chunk")]
              ELSE [etl EXCEPT !.errorOutput = Append(@, "chunk")]
  /\ UNCHANGED <<db, api, job, fec, ui>>

\* python.on('close', (code) => ...)
ChildClose(code) ==
  /\ etl.pc = "running"
  /\ etl.variant = "spawn"
  /\ etl' = [pc |-> "done", outcome |-> code,
             responses |->
               Append(etl.responses,
                 IF code = Val(0)
                   THEN Response(200, NoHeaders,
                          [message |-> "ETL script completed successfully",
                           output |-> etl.output])
                   ELSE Response(500, NoHeaders,
                          [message |-> "ETL script failed",
                           error |-> etl.errorOutput]))] @@ etl
  /\ UNCHANGED <<db, api, job, fec, ui>>

\* the server process is started again
Restart ==
  /\ etl.pc = "crashed"
  /\ etl' = NoEtlRequest
  /\ UNCHANGED <<db, api, job, fec, ui>>

\* ---------------------------------------------------------------------------
\* Inputs and specifications
\* ---------------------------------------------------------------------------
\* identifiers requested: three known ones, and two unknown ones of which one
\* differs from a known identifier by case only
BioguideInputs == {"A000360", "L000002", "L000003", "a000360", "Z999999"}

\* query-string values of page and pageSize: absent, or a string
QueryValues ==
  {Absent, Text(<<>>), Text(<<"a", "b", "c">>), Text(<<"-", "5">>),
   Text(<<"0">>), Text(<<"1">>), Text(<<"2">>), Text(<<"3">>),
   Text(<<"2", "x">>)}

\* ---------------------------------------------------------------------------
\* The browser client: the LegislatorList component (the paginated variant
\* with filters) and its useDebounce hook
\* ---------------------------------------------------------------------------
\* a JSON value held in component state: an array or an object
Arr(elems) == [array |-> TRUE, elems |-> elems]
Obj(fields) == [array |-> FALSE, fields |-> fields]

\* v.length: the number of elements of an array, undefined on an object
\* that has no such member
length(v) == IF v.array THEN Val(Len(v.elems)) ELSE UNDEF

\* a < n, which is false when a is undefined (NaN compares false)
LessThan(a, n) == IF a = UNDEF THEN FALSE ELSE a.val < n

\* String(n) of a non-negative integer
RECURSIVE DecimalString(_)
DecimalString(n) ==
  IF n < 10 THEN DigitStr[n + 1]
  ELSE DecimalString(n \div 10) \o DigitStr[(n % 10) + 1]

\* a string as a query-string parameter, set only when it is not empty
Param(s) == IF s = "" THEN Absent ELSE Text(s)

\* new URLSearchParams() with page and pageSize, and each filter under its if
Params(s) ==
  [page |-> Text(ToDecimal(s.page)),
   pageSize |-> Text(ToDecimal(PAGE_SIZE)),
   query |-> Param(s.debouncedQuery),
   party |-> Param(s.party),
   state |-> Param(s.stateFilter)]

\* clearTimeout(handle) that leaves the timer pending
clearTimeoutIgnored(timers, handle) == timers

\* clearTimeout(handle)
clearTimeout(timers, handle) == {t \in timers : t.handle # handle}

\* the effect of useDebounce: the cleanup of its previous run, then
\* const handler = setTimeout(() => setDebouncedValue(value), delay)
DebounceEffect(s) ==
  [s EXCEPT !.timers = clearTimeout(s.timers, s.handler) \cup
                         {[handle |-> s.handles + 1, value |-> s.query]},
            !.handler = s.handles + 1,
            !.handles = s.handles + 1]

\* fetchLegislators() up to its await: the two setters and the request
FetchEffect(s) ==
  [s EXCEPT !.loading = TRUE,
            !.error = "",
            !.seq = s.seq + 1,
            !.fetches = s.fetches \cup
                          {[seq |-> s.seq + 1, stage |-> "sent", params |-> Params(s)]}]

\* the dependency arrays of the two effects
DebounceDeps(s) == <<s.query>>
FetchDeps(s) == <<s.page, s.debouncedQuery, s.party, s.stateFilter>>

\* the render that follows the setters of one event, and the effects whose
\* dependencies changed, in the order of their declaration
Commit(s, t) ==
  LET a == IF DebounceDeps(t) # DebounceDeps(s) THEN DebounceEffect(t) ELSE t
  IN IF FetchDeps(t) # FetchDeps(s) THEN FetchEffect(a) ELSE a

\* the state hooks' initial values, before the first effects
Mounted ==
  [component |-> "list", view |-> "mounted",
   legislators |-> Arr(<<>>), loading |-> TRUE, error |-> "", page |-> 1,
   query |-> "", debouncedQuery |-> "", party |-> "", stateFilter |-> "",
   timers |-> {}, handler |-> 0, handles |-> 0, emissions |-> <<>>,
   fetches |-> {}, seq |-> 0, applied |-> <<>>]

\* the component is on screen and takes events
ListShown == ui # NoClient /\ ui.component = "list" /\ ui.view = "mounted"

\* room for the timer of one more event, and for its request and the one
\* that the pending input will cause
Within(t) ==
  /\ t.seq + (IF t.debouncedQuery = t.query THEN 0 ELSE 1) <= MaxFetches
  /\ t.handles <= MaxTimers

\* an event whose setters turn the state into t
Event(t) ==
  /\ ListShown
  /\ Within(Commit(ui, t))
  /\ ui' = Commit(ui, t)
  /\ UNCHANGED <<db, api, etl, job, fec>>

\* the route /legislators is entered: first render, then both effects
MountList ==
  /\ ui = NoClient
  /\ ui' = FetchEffect(DebounceEffect(Mounted))
  /\ UNCHANGED <<db, api, etl, job, fec>>

\* onChange of the name input
TypeQuery(v) == ListShown /\ v # ui.query /\ Event([ui EXCEPT !.query = v])

\* onChange of the two selects
SelectParty(v) == ListShown /\ v # ui.party /\ Event([ui EXCEPT !.party = v])
SelectState(v) == ListShown /\ v # ui.stateFilter /\ Event([ui EXCEPT !.stateFilter = v])

\* onClick={() => setPage(1)}
Apply == ListShown /\ Event([ui EXCEPT !.page = 1])

\* handleReset that leaves the party select as it is
handleResetKeepingParty(s) ==
  [s EXCEPT !.query = "", !.stateFilter = "", !.page = 1]

handleReset(s) ==
  [s EXCEPT !.query = "", !.party = "", !.stateFilter = "", !.page = 1]

ResetFilters == ListShown /\ Event(handleReset(ui))

\* p => Math.max(1, p - 1)
PrevPage(p) == IF p - 1 > 1 THEN p - 1 ELSE 1
\* p => p + 1
NextPage(p) == p + 1

\* a click on Prev, which does nothing while the button is disabled
PrevDisabled(s) == s.page = 1
Prev ==
  IF ListShown /\ PrevDisabled(ui)
    THEN UNCHANGED vars
    ELSE Event([ui EXCEPT !.page = PrevPage(ui.page)])

\* a click on Next, likewise
NextDisabled(s) == LessThan(length(s.legislators), PAGE_SIZE)
NextClick ==
  IF ListShown /\ NextDisabled(ui)
    THEN UNCHANGED vars
    ELSE Event([ui EXCEPT !.page = NextPage(ui.page)])

\* the delay of a pending timer has elapsed: setDebouncedValue(value)
TimerFires ==
  /\ ListShown
  /\ \E t \in ui.timers :
       ui' = Commit(ui, [ui EXCEPT !.debouncedQuery = t.value,
                                   !.timers = ui.timers \ {t},
                                   !.emissions = Append(ui.emissions,
                                     [handle |-> t.handle, value |-> t.value,
                                      input |-> ui.query, last |-> ui.handles])])
  /\ UNCHANGED <<db, api, etl, job, fec>>

\* ---------------------------------------------------------------------------
\* The client's requests on their way to the server and back
\* ---------------------------------------------------------------------------
InFlight(stage) == {r \in ui.fetches : r.stage = stage}
ClientUp == ui # NoClient /\ ui.view = "mounted"

Staged(r, stage, res) == [seq |-> r.seq, stage |-> stage, params |-> r.params, res |-> res]

\* a request reaches the server, which takes one request at a time
Reach ==
  /\ ClientUp
  /\ pc = "idle"
  /\ InFlight("serving") = {}
  /\ \E r \in InFlight("sent") :
       ui' = [ui EXCEPT !.fetches = (ui.fetches \ {r}) \cup
                                      {[seq |-> r.seq, stage |-> "serving", params |-> r.params]}]
  /\ UNCHANGED <<db, api, etl, job, fec>>

\* the request never gets an answer: fetch rejects
FailedToFetch == [failed |-> "Failed to fetch"]
NetworkError ==
  /\ ClientUp
  /\ \E r \in InFlight("sent") :
       ui' = [ui EXCEPT !.fetches = (ui.fetches \ {r}) \cup {Staged(r, "arrived", FailedToFetch)}]
  /\ UNCHANGED <<db, api, etl, job, fec>>

\* GET /api/legislators?page=..&pageSize=.. of the request being served
ServeList ==
  /\ ClientUp
  /\ ui.component = "list"
  /\ \E r \in InFlight("serving") : ReceiveList(r.params.page, r.params.pageSize)

\* the response travels back; responses overtake one another at will
Arrive ==
  /\ ClientUp
  /\ pc = "done"
  /\ \E r \in InFlight("serving") :
       ui' = [ui EXCEPT !.fetches = (ui.fetches \ {r}) \cup {Staged(r, "arrived", responses[1])}]
  /\ UNCHANGED <<db, api, etl, job, fec>>

\* the handler returns once its response is on the way
Served ==
  /\ ui # NoClient
  /\ InFlight("serving") = {}
  /\ Complete

\* res.ok
Ok(res) == res.status >= 200 /\ res.status <= 299

\* the render of the list: legislators.map(...) gives one card per element
\* and throws on a value that has no map
Cards(s) ==
  IF s.legislators.array
    THEN [thrown |-> "none",
          cards |-> [i \in 1..Len(s.legislators.elems) |-> s.legislators.elems[i].bioguide_id]]
    ELSE [thrown |-> "legislators.map is not a function"]

\* a render that throws leaves the error boundary's fallback on screen
Rendered(s) ==
  IF Cards(s).thrown = "none" THEN s
  ELSE [s EXCEPT !.view = "error boundary", !.timers = {}]

\* await res.json() of the list endpoint's body
json(res) == Obj(res.body)

\* fetchLegislators() from its await on: try, catch and finally
Fetched(s, r) ==
  LET t == [s EXCEPT !.fetches = s.fetches \ {r}]
  IN IF r.res = FailedToFetch
       THEN [t EXCEPT !.error = r.res.failed, !.loading = FALSE]
       ELSE IF ~Ok(r.res)
              THEN [t EXCEPT !.error = "Server responded " \o DecimalString(r.res.status),
                             !.loading = FALSE]
              ELSE [t EXCEPT !.legislators = json(r.res), !.loading = FALSE,
                             !.applied = Append(s.applied, r)]

SettleList ==
  /\ ListShown
  /\ \E r \in InFlight("arrived") : ui' = Rendered(Fetched(ui, r))
  /\ UNCHANGED <<db, api, etl, job, fec>>

\* ---------------------------------------------------------------------------
\* The browser client: the LegislatorProfile component
\* ---------------------------------------------------------------------------
\* the effect of LegislatorProfile, run when the route's id changes
ProfileEffect(s) ==
  IF ~Truthy(s.id)
    THEN [s EXCEPT !.error = "Invalid legislator ID", !.loading = FALSE,
                   !.seq = s.seq + 1]
    ELSE [s EXCEPT !.loading = TRUE,
                   !.seq = s.seq + 1,
                   !.fetches = s.fetches \cup
                                 {[seq |-> s.seq + 1, stage |-> "sent", params |-> [id |-> s.id.text]]}]

\* the state hooks' initial values, before the first effect
Opened(id) ==
  [component |-> "profile", view |-> "mounted", id |-> id,
   legislator |-> NULL, loading |-> TRUE, error |-> "",
   fetches |-> {}, seq |-> 0, applied |-> <<>>]

ProfileShown == ui # NoClient /\ ui.component = "profile"

\* the route /legislators/:id is entered
MountProfile(id) ==
  /\ ui = NoClient
  /\ ui' = ProfileEffect(Opened(id))
  /\ UNCHANGED <<db, api, etl, job, fec>>

\* the route's id changes while the component stays mounted
Navigate(id) ==
  /\ ProfileShown
  /\ id # ui.id
  /\ ui.seq < MaxFetches
  /\ ui' = ProfileEffect([ui EXCEPT !.id = id])
  /\ UNCHANGED <<db, api, etl, job, fec>>

\* GET /api/legislators/:id of the request being served
ServeProfile ==
  /\ ProfileShown
  /\ \E r \in InFlight("serving") : ReceiveProfile(r.params.id)

\* the then, catch and finally of the axios promise
Loaded(s, r) ==
  LET t == [s EXCEPT !.fetches = s.fetches \ {r}]
  IN IF r.res # FailedToFetch /\ Ok(r.res)
       THEN [t EXCEPT !.legislator = r.res.body, !.error = "", !.loading = FALSE,
                      !.applied = Append(s.applied, r)]
       ELSE IF r.res # FailedToFetch /\ r.res.status = 404
              THEN [t EXCEPT !.error = "Legislator not found.", !.loading = FALSE]
              ELSE [t EXCEPT !.error = "Failed to load legislator data.", !.loading = FALSE]

SettleProfile ==
  /\ ProfileShown
  /\ \E r \in InFlight("arrived") : ui' = Loaded(ui, r)
  /\ UNCHANGED <<db, api, etl, job, fec>>

\* the profile endpoint over stores with three legislators
InitProfile ==
  \E nt \in 0..MaxTerms, nb \in 0..MaxBills, nc \in 0..MaxCycles, nv \in 0..MaxVotes :
    Idle(Store(3, nt, nb, nc, nv))

ProfileSteps ==
  \/ CoreLegislator
  \/ ServiceHistory
  \/ Committees
  \/ Leadership
  \/ SponsoredBills
  \/ CampaignFinance
  \/ RecentVotes

NextProfile ==
  \/ \E b \in BioguideInputs : ReceiveProfile(b)
  \/ ProfileSteps
  \/ Complete

Spec == InitProfile /\ [][NextProfile]_vars

\* the list endpoint over stores of 0..MaxLegs legislators
InitList == \E nl \in 0..MaxLegs : Idle(Store(nl, 1, 0, 0, 0))

NextList ==
  \/ \E p \in QueryValues, s \in QueryValues : ReceiveList(p, s)
  \/ ListCount
  \/ ListPage
  \/ Complete

SpecList == InitList /\ [][NextList]_vars

\* a client that repeats profile requests and compares the answers
InitRetry == \E nc \in 0..MaxCycles : Idle(Store(3, 1, 2, nc, 2))

NextRetry ==
  \/ \E b \in BioguideInputs : ReceiveProfile(b)
  \/ ProfileSteps
  \/ CompleteAndKeep

SpecRetry == InitRetry /\ [][NextRetry]_vars

\* a client that pages through the list with valid parameters
PagingPages == {Text(<<"1">>), Text(<<"2">>), Text(<<"3">>)}
PagingSizes == {Text(<<"2">>), Text(<<"4">>)}

InitPaging == \E nl \in 0..MaxPagingLegs : Idle(Store(nl, 1, 0, 0, 0))

NextPaging ==
  \/ \E p \in PagingPages, s \in PagingSizes : ReceiveList(p, s)
  \/ ListCount
  \/ ListPage
  \/ CompleteAndKeep

SpecPaging == InitPaging /\ [][NextPaging]_vars

\* a client that repeats list and profile requests against a store that may
\* fail at any query, and compares the answers
FailurePages == {Absent, Text(<<"-", "5">>), Text(<<"2">>)}

InitFailures == \E nt \in 0..MaxTerms : Idle(Store(3, nt, 2, 1, 2))

NextFailures ==
  \/ \E p \in FailurePages : ReceiveList(p, Absent)
  \/ ListCount
  \/ ListPage
  \/ \E b \in {"A000360", "L000002"} : ReceiveProfile(b)
  \/ ProfileSteps
  \/ CompleteAndKeep

SpecFailures == InitFailures /\ [][NextFailures]_vars

\* the whole server: every route behind the correlation middleware, and an
\* ETL trigger request in flight next to the other request

ServerOrigins == {Absent, Text(Https \o <<"e", ".", "i", "o">>)}
ServerSizes == {Absent, Text(<<"2">>)}
ServerIds == {"A000360", "N000001", "a000360"}
CorrelationHeaders ==
  {Absent, Text(<<" ", "\t">>), Text(<<" ", "a", " ", "b", "\t">>)}
Uuids == {<<"u", "1">>, <<"u", "2">>}

InitServer == \E nl \in 3..MaxServerLegs : Idle(Store(nl, 1, 1, 1, 1))

NextServer ==
  \/ \E h \in CorrelationHeaders, u \in Uuids : Correlate(h, u)
  \/ \E o \in ServerOrigins : Cors(o)
  \/ \E s \in ServerSizes : ListRoute(Absent, s)
  \/ \E b \in ServerIds : ProfileRoute(b)
  \/ GetBills
  \/ GetVotes
  \/ GetFinance
  \/ Health
  \/ ListCount
  \/ ListPage
  \/ ProfileSteps
  \/ Complete
  \/ \E u \in Uuids : ReceiveEtl(Absent, u)
  \/ \E rec \in ExternalLegislators : EtlUpsert(rec)
  \/ EtlRespond
  \/ EtlComplete

SpecServer == InitServer /\ [][NextServer]_vars

\* a browser session on the list page, against the list endpoint
ClientQueries == {"", "s", "sm"}
ClientParties == {"", "D"}
ClientStates == {"", "CA"}

InitListClient == Idle(Store(MaxClientLegs, 1, 0, 0, 0))

NextListClient ==
  \/ MountList
  \/ \E v \in ClientQueries : TypeQuery(v)
  \/ \E v \in ClientParties : SelectParty(v)
  \/ \E v \in ClientStates : SelectState(v)
  \/ Apply
  \/ ResetFilters
  \/ Prev
  \/ NextClick
  \/ TimerFires
  \/ Reach
  \/ NetworkError
  \/ ServeList
  \/ ListCount
  \/ ListPage
  \/ Arrive
  \/ Served
  \/ SettleList

SpecListClient == InitListClient /\ [][NextListClient]_vars

\* the timer callback runs once its delay has elapsed
SpecListClientLive == SpecListClient /\ WF_vars(TimerFires)

\* a browser session on the list page or on a profile page, against the two
\* endpoints
ClientIds == {Absent, Text("A000360"), Text("L000002"), Text("Z999999")}

InitClient == Idle(Store(MaxClientLegs, 1, 1, 1, 1))

NextClient ==
  \/ MountList
  \/ \E v \in ClientParties : SelectParty(v)
  \/ TimerFires
  \/ \E id \in ClientIds : MountProfile(id)
  \/ \E id \in ClientIds : Navigate(id)
  \/ Reach
  \/ NetworkError
  \/ ServeList
  \/ ListCount
  \/ ListPage
  \/ ServeProfile
  \/ ProfileSteps
  \/ Arrive
  \/ Served
  \/ SettleList
  \/ SettleProfile

SpecClient == InitClient /\ [][NextClient]_vars

\* the two variants of the ETL trigger route, with the script's writes
InitTrigger == \E nl \in 3..MaxServerLegs : Idle(Store(nl, 1, 1, 1, 1))

NextTrigger ==
  \/ \E u \in Uuids : ReceiveEtl(Absent, u)
  \/ \E u \in Uuids : SpawnEtl(Absent, u)
  \/ ChildRuns
  \/ ChildError
  \/ \E stream \in Streams : ChildData(stream)
  \/ \E code \in ExitCodes : ChildClose(code)
  \/ \E rec \in ExternalLegislators : EtlUpsert(rec)
  \/ EtlRespond
  \/ EtlComplete
  \/ Restart

SpecTrigger == InitTrigger /\ [][NextTrigger]_vars

\* the middleware chain in front of the routes, under every configuration of
\* the two environment variables
AIo == Https \o <<"a", ".", "i", "o">>
BIo == Https \o <<"b", ".", "i", "o">>
CIo == Https \o <<"c", ".", "i", "o">>
CorsEnvs ==
  [FRONTEND_ORIGIN : {Absent, Text(<<>>), Text(AIo)},
   ADDITIONAL_ORIGINS : {Absent, Text(BIo \o <<",">> \o CIo)}]
CorsOrigins ==
  {Absent, Text(<<>>), Text(AIo), Text(CIo),
   Text(Https \o <<"x">> \o VercelApp),
   Text(<<"h", "t", "t", "p", ":", "/", "/", "x">> \o OnrenderCom),
   Text(Https \o Tail(VercelApp)),
   Text(Https \o <<"x">> \o VercelApp \o <<".", "e", ".", "i", "o">>),
   Text(Https \o <<"e", ".", "i", "o">>)}

InitCors ==
  \E env \in CorsEnvs :
    /\ IdleApi(Store(3, 1, 1, 1, 1))
    /\ etl = NoEtlRequest
    /\ job = NoJob
    /\ fec = {}
    /\ cors = Bootstrapped(env)
    /\ ui = NoClient

NextCors ==
  \/ \E u \in Uuids : Correlate(Absent, u)
  \/ \E o \in CorsOrigins : Cors(o)
  \/ ListRoute(Absent, Absent)
  \/ \E b \in ServerIds : ProfileRoute(b)
  \/ GetBills
  \/ GetVotes
  \/ GetFinance
  \/ Health
  \/ ListCount
  \/ ListPage
  \/ ProfileSteps
  \/ Complete

SpecCors == InitCors /\ [][NextCors]_vars

\* the mapping job over stores of 3..MaxJobLegs legislators and a source with
\* up to MaxCandidates Senate candidates, listed in every cycle

SenateDistricts == <<PyStr("00"), PyNone, PyStr("")>>
SenateCandidates(ns) ==
  [i \in 1..ns |->
     [candidate_id |-> PyStr("S" \o DigitStr[i + 1]),
      name |-> PyStr("FIRST LAST"),
      state |-> PyStr(StateNames[(i % 2) + 1]),
      district |-> SenateDistricts[(i % 3) + 1]]]

\* House candidates: one of a district the store has, one unknown, and, when
\* nameless, one whose record has no name
HouseCandidates(nameless) ==
  LET h1 == [candidate_id |-> PyStr("H1"), name |-> PyStr("FIRST LAST"),
             state |-> PyStr("AL"), district |-> PyStr("02")]
      h2 == [candidate_id |-> PyStr("H2"), name |-> PyStr("Other Name"),
             state |-> PyStr("AZ"), district |-> PyStr("01")]
      h3 == [candidate_id |-> PyStr("H3"), name |-> PyNone,
             state |-> PyStr("AL"), district |-> PyNone]
  IN IF nameless THEN <<h1, h3, h2>> ELSE <<h1, h2>>

Feed(ns, nameless) ==
  [office \in {"H", "S"} |->
     IF office = "S" THEN SenateCandidates(ns) ELSE HouseCandidates(nameless)]

\* the source reports the page count of its records, one page more, or none
Reported == {"exact", "over", "none"}

InitMapping ==
  \E nl \in 3..MaxJobLegs, ns \in 0..MaxCandidates, nameless \in BOOLEAN,
     reported \in Reported :
    /\ IdleApi(Store(nl, 1, 1, 1, 1))
    /\ etl = NoEtlRequest
    /\ job = Scheduled(Feed(ns, nameless), reported)
    /\ fec = {}
    /\ cors = Bootstrapped(NoEnv)
    /\ ui = NoClient

NextMapping ==
  \/ JobStart
  \/ JobLookup
  \/ JobFetch
  \/ JobMap
  \/ JobUpsert
  \/ JobRerun

SpecMapping == InitMapping /\ [][NextMapping]_vars

\* the same, the process going on with its loop while a request is to be made
SpecMappingLive == SpecMapping /\ WF_vars(JobFetch)

\* ---------------------------------------------------------------------------
\* Properties
\* ---------------------------------------------------------------------------
Done == pc = "done"
ProfileDone == Done /\ req.kind = "profile"
ListDone == Done /\ req.kind = "list"
Sent == responses[Len(responses)]

KnownId(b) == \E r \in db.legislators : r.bioguide_id = b
RowOf(b) == CHOOSE r \in db.legislators : r.bioguide_id = b

RelatedTables ==
  {"service_history", "committee_assignments", "leadership_roles",
   "bill_sponsorships", "campaign_finance", "vote_records"}
SubQueries ==
  {"service_history", "committees", "leadership", "bills", "finance", "votes"}
ScalarFields ==
  {"bioguide_id", "first_name", "last_name", "party", "state", "district",
   "chamber", "portrait_url", "official_website_url", "office_contact", "bio"}
SectionFields ==
  {"service_history", "committees", "leadership_positions", "sponsored_bills",
   "finance_summary", "recent_votes"}

\* C1: a profile request for an identifier that matches no legislators row
\* queries nothing but the legislators table, once, and, the store answering,
\* is answered by exactly one response, with status 404.
C1_UnknownIdIsNotFound ==
  (req.kind = "profile" /\ ~KnownId(req.bioguide_id)) =>
     /\ \A i \in 1..Len(queries) : queries[i] \notin RelatedTables
     /\ Len(queries) <= 1
     /\ (Done /\ fault = "none") =>
           /\ Len(responses) = 1
           /\ Sent.status = 404
           /\ queries = <<"legislators">>
           /\ DOMAIN Sent.body = {"error"}

C1_Witness ==
  /\ ProfileDone
  /\ req.bioguide_id = "a000360"
  /\ Sent.status = 404
  /\ queries = <<"legislators">>

\* C2: when a related-entity sub-query of a known legislator's profile throws,
\* whichever it is, exactly one response is sent, with status 500, and its body
\* has none of the scalar fields and none of the sections.
C2_SubQueryFailureIsAllOrNothing ==
  /\ Len(responses) <= 1
  /\ (ProfileDone /\ fault \in SubQueries) =>
        /\ Len(responses) = 1
        /\ Sent.status = 500
        /\ (DOMAIN Sent.body) \cap (ScalarFields \cup SectionFields) = {}

C2_Witness ==
  /\ ProfileDone
  /\ fault = "finance"
  /\ Sent.status = 500
  /\ Len(legislator.sponsored_bills) > 0
  /\ Len(legislator.service_history) > 0

\* C3: in every successful profile response finance_summary is present and is
\* neither null nor undefined, and it is the empty object when the legislator
\* has no campaign_finance row.
C3_FinanceSummaryIsObject ==
  (ProfileDone /\ Sent.status = 200) =>
     /\ "finance_summary" \in DOMAIN Sent.body
     /\ Sent.body.finance_summary \notin {NULL, UNDEF}
     /\ (\A r \in db.campaign_finance :
            r.legislator_id # RowOf(req.bioguide_id).id)
          => Sent.body.finance_summary = EmptyObject

C3_Witness ==
  /\ ProfileDone
  /\ Sent.status = 200
  /\ req.bioguide_id = "A000360"
  /\ Len(Sent.body.service_history) = 1
  /\ Sent.body.service_history[1].start_date = 2019
  /\ Sent.body.service_history[1].end_date = NULL
  /\ \A r \in db.campaign_finance : r.legislator_id # 1
  /\ Sent.body.finance_summary = EmptyObject

\* page or pageSize input that is non-numeric, zero or negative
InvalidParam(v) == parseInt(v).nan \/ parseInt(v).val <= 0

\* C4: the store answering, a list request is never answered by an error:
\* the response has status 200 with positive page and pageSize, page 1 for an
\* invalid page input and page size 24 for an invalid pageSize input.
C4_InvalidPaginationFallsBack ==
  (ListDone /\ fault = "none") =>
     /\ Sent.status = 200
     /\ Sent.body.page >= 1
     /\ Sent.body.pageSize >= 1
     /\ InvalidParam(req.page) => Sent.body.page = 1
     /\ InvalidParam(req.pageSize) => Sent.body.pageSize = 24

\* (state, district NULLS LAST) of a is not after that of b
KeyLeq(a, b) ==
  \/ StateRank(a.state) < StateRank(b.state)
  \/ /\ a.state = b.state
     /\ \/ b.district.isnull
        \/ (~a.district.isnull /\ a.district.val <= b.district.val)
KeyLt(a, b) == ~KeyLeq(b, a)

\* C5: a successful list response for page p and page size s holds the rows
\* at positions (p-1)*s+1 .. p*s of the legislators ordered by state, then
\* district with NULLs last: as many as the table has there, distinct rows of
\* the table, each at a position its sort key can take; and totalCount is the
\* number of legislators whatever the page.
C5_PageIsSliceOfOrdering ==
  (ListDone /\ Sent.status = 200) =>
     LET items == Sent.body.items
         p == Sent.body.page
         s == Sent.body.pageSize
         n == Cardinality(db.legislators)
         first == (p - 1) * s + 1
         last == IF p * s < n THEN p * s ELSE n
     IN /\ Sent.body.totalCount = n
        /\ Len(items) = (IF last >= first THEN last - first + 1 ELSE 0)
        /\ \A k \in 1..Len(items) : KnownId(items[k].bioguide_id)
        /\ \A k, m \in 1..Len(items) :
              k # m => items[k].bioguide_id # items[m].bioguide_id
        /\ \A k \in 1..Len(items) :
              LET pos == first + k - 1
              IN /\ Cardinality({r \in db.legislators : KeyLt(r, items[k])}) < pos
                 /\ Cardinality({r \in db.legislators : KeyLeq(r, items[k])}) >= pos
                 /\ items[k].state = RowOf(items[k].bioguide_id).state
                 /\ items[k].district = RowOf(items[k].bioguide_id).district

C5_Witness ==
  /\ ListDone
  /\ Sent.status = 200
  /\ Sent.body.page = 2
  /\ Sent.body.pageSize = 24
  /\ Len(Sent.body.items) >= 2
  /\ Sent.body.items[1].bioguide_id # Sent.body.items[2].bioguide_id

\* the sponsorships and the votes of the requested legislator in the store
OwnBills == {r \in db.bill_sponsorships : r.legislator_id = RowOf(req.bioguide_id).id}
OwnVotes == {r \in db.vote_records : r.legislator_id = RowOf(req.bioguide_id).id}
SessionOf(vr) == CHOOSE vs \in db.vote_sessions : vs.id = vr.vote_session_id

\* the sponsorship a sponsored_bills entry shows
BillShown(e) ==
  {r \in OwnBills : /\ r.bill_number = e.bill_id
                    /\ r.sponsorship_type = e.type
                    /\ r.date_introduced = e.date}

\* sponsorship a was introduced later than sponsorship b: a has an
\* introduction date and b has none or an earlier one
IntroducedLater(a, b) ==
  /\ ~a.date_introduced.isnull
  /\ (b.date_introduced.isnull \/ a.date_introduced.val > b.date_introduced.val)

\* C7: sponsored_bills of a successful profile response has at most 10
\* entries, each one a sponsorship of the legislator, no two the same, with
\* dates in descending order, and they are the 10 most recently introduced:
\* no sponsorship left out was introduced later than one included.
C7_SponsoredBillsAreTheTenLatest ==
  (ProfileDone /\ Sent.status = 200) =>
     LET sb == Sent.body.sponsored_bills
         shown == UNION {BillShown(sb[i]) : i \in 1..Len(sb)}
     IN /\ Len(sb) <= 10
        /\ Len(sb) = Min(10, Cardinality(OwnBills))
        /\ \A i \in 1..Len(sb) : BillShown(sb[i]) # {}
        /\ Cardinality(shown) = Len(sb)
        /\ \A i, j \in 1..Len(sb) :
              (i < j /\ ~sb[i].date.isnull /\ ~sb[j].date.isnull)
                 => sb[i].date.val >= sb[j].date.val
        /\ \A out \in OwnBills \ shown : \A in \in shown :
              ~IntroducedLater(out, in)

\* the vote record a recent_votes entry shows
VoteShown(e) ==
  {r \in OwnVotes : /\ r.vote_session_id = e.vote_session_id
                    /\ r.vote_cast = e.position
                    /\ SessionOf(r).date = e.date
                    /\ SessionOf(r).bill_id = e.bill}

\* C8: recent_votes of a successful profile response has at most 20 entries,
\* in descending order of session date; each entry is a vote of the requested
\* legislator with its session's date and bill reference and the position the
\* legislator cast; no vote left out has a later session date than one included.
C8_RecentVotesAreTheTwentyLatest ==
  (ProfileDone /\ Sent.status = 200) =>
     LET rv == Sent.body.recent_votes
         shown == UNION {VoteShown(rv[i]) : i \in 1..Len(rv)}
     IN /\ Len(rv) <= 20
        /\ Len(rv) = Min(20, Cardinality(OwnVotes))
        /\ \A i \in 1..Len(rv) : VoteShown(rv[i]) # {}
        /\ Cardinality(shown) = Len(rv)
        /\ \A i, j \in 1..Len(rv) : i < j => rv[i].date >= rv[j].date
        /\ \A out \in OwnVotes \ shown : \A in \in shown :
              SessionOf(out).date <= SessionOf(in).date

C8_Witness ==
  /\ ProfileDone
  /\ Sent.status = 200
  /\ Len(Sent.body.recent_votes) = 20
  /\ Cardinality(OwnVotes) > 20
  /\ Sent.body.recent_votes[1].date > Sent.body.recent_votes[20].date

\* the campaign_finance rows of the requested legislator
OwnFinance == {r \in db.campaign_finance : r.legislator_id = RowOf(req.bioguide_id).id}

\* C10: for a legislator with campaign_finance rows, finance_summary of a
\* successful profile response is the row of that legislator's latest cycle.
C10_FinanceSummaryIsLatestCycle ==
  (ProfileDone /\ Sent.status = 200 /\ OwnFinance # {}) =>
     \E r \in OwnFinance :
        /\ \A o \in OwnFinance : o.cycle <= r.cycle
        /\ Sent.body.finance_summary =
             [cycle |-> r.cycle, total_contributions |-> r.total_raised,
              top_industries |-> r.industry_breakdown]

\* the identifiers on a page
PageIds(res) == {res.body.items[k].bioguide_id : k \in 1..Len(res.body.items)}

\* two successful list exchanges in a row for different pages of one page size
TwoPages ==
  /\ ListDone
  /\ prev # NoExchange
  /\ prev.req.kind = "list"
  /\ prev.db = db
  /\ prev.res.status = 200
  /\ Sent.status = 200
  /\ prev.res.body.pageSize = Sent.body.pageSize
  /\ prev.res.body.page # Sent.body.page

\* C6: for a fixed store and page size no legislator is on two pages, and
\* when two pages cover the table, pages 1 and 2 together hold every legislator.
C6_PagesPartitionLegislators ==
  TwoPages =>
     /\ PageIds(prev.res) \cap PageIds(Sent) = {}
     /\ ({prev.res.body.page, Sent.body.page} = {1, 2}
          /\ Cardinality(db.legislators) <= 2 * Sent.body.pageSize)
        => PageIds(prev.res) \cup PageIds(Sent) =
             {r.bioguide_id : r \in db.legislators}

\* C9: two profile requests in a row for one identifier against an unchanged
\* store, the store answering both, get the same status and the same body, and
\* the store is as it was.
C9_ProfileIsIdempotent ==
  (/\ ProfileDone
   /\ prev # NoExchange
   /\ prev.req = req
   /\ prev.fault = "none"
   /\ fault = "none") =>
     /\ db = prev.db
     /\ Sent = prev.res

\* the service terms of the requested legislator, as the response shows them
OwnTerms ==
  {[chamber |-> r.chamber, start_date |-> r.start_date, end_date |-> r.end_date] :
     r \in {t \in db.service_history : t.legislator_id = RowOf(req.bioguide_id).id}}

\* C20: service_history of a successful profile response holds every service
\* term of the requested legislator once, and no other term, and its entries
\* are in descending order of start date.
C20_ServiceHistoryIsAllTermsDescending ==
  (ProfileDone /\ Sent.status = 200) =>
     LET sh == Sent.body.service_history
     IN /\ Len(sh) = Cardinality(OwnTerms)
        /\ {sh[i] : i \in 1..Len(sh)} = OwnTerms
        /\ \A i \in 1..Len(sh), j \in 1..Len(sh) :
             i < j => sh[i].start_date >= sh[j].start_date

C20_Witness ==
  /\ ProfileDone
  /\ Sent.status = 200
  /\ Len(Sent.body.service_history) >= 2
  /\ \E r \in db.service_history : r.legislator_id # RowOf(req.bioguide_id).id

\* C19: in a successful list response the X-Total-Count header is the decimal
\* text of the body's totalCount, which is the number of legislators rows; the
\* body's page and pageSize are the values the slice was computed with, a valid
\* input being taken as given, and items has at most pageSize entries.
C19_TotalCountHeaderEchoesBody ==
  (ListDone /\ Sent.status = 200) =>
     LET b == Sent.body
         n == Cardinality(db.legislators)
         rest == n - (b.page - 1) * b.pageSize
     IN /\ parseInt(Text(Sent.headers.XTotalCount)) = Num(b.totalCount)
        /\ b.totalCount = n
        /\ ~InvalidParam(req.page) => b.page = parseInt(req.page).val
        /\ ~InvalidParam(req.pageSize) => b.pageSize = parseInt(req.pageSize).val
        /\ Len(b.items) <= b.pageSize
        /\ Len(b.items) = (IF rest < 0 THEN 0 ELSE Min(rest, b.pageSize))

C19_Witness ==
  /\ ListDone
  /\ Sent.status = 200
  /\ Sent.headers.XTotalCount = <<"2", "6">>
  /\ Sent.body.totalCount = 26
  /\ req.page = Text(<<"2">>)
  /\ req.pageSize = Absent
  /\ Len(Sent.body.items) = 2

\* the request of the previous exchange was the same one against the same store
SameRequestAgain ==
  /\ prev # NoExchange
  /\ prev.req = req
  /\ prev.db = db

\* C13: when a query of a list or profile request is rejected, exactly one
\* response is sent, with status 500 and a body that holds nothing but a
\* message other than the error's; and two runs of one request that fail at
\* the same query with whatever errors get the same response.
C13_ErrorResponseIsOpaque ==
  (Done /\ req.kind \in {"list", "profile"} /\ err # "none") =>
     /\ Len(responses) = 1
     /\ Sent.status = 500
     /\ DOMAIN Sent.body = {"error"}
     /\ Sent.body.error # err
     /\ (SameRequestAgain /\ prev.fault = fault /\ prev.err # "none")
          => Sent = prev.res

C13_Witness ==
  /\ Done
  /\ req.kind = "profile"
  /\ fault = "bills"
  /\ SameRequestAgain
  /\ prev.fault = fault
  /\ err # "none"
  /\ prev.err # "none"
  /\ prev.err # err
  /\ Sent.status = 500

\* C14: two profile requests that each fail at a related-entity lookup get the
\* same status and the same body, whichever lookups failed.
C14_SingleInternalErrorSignal ==
  (/\ ProfileDone
   /\ fault \in SubQueries
   /\ prev # NoExchange
   /\ prev.req.kind = "profile"
   /\ prev.fault \in SubQueries) =>
     /\ Sent.status = prev.res.status
     /\ Sent.body = prev.res.body

\* the portrait URLs the legislators table holds or is given by the source
StoredPortraits ==
  {r.portrait_url : r \in db.legislators \cup ExternalLegislators}

\* C11: every legislator of a successful list or profile response has the
\* portrait_url '/portraits/' + bioguide_id + '.jpg' of its own identifier as
\* stored and as requested, and never a portrait URL of the legislators table.
C11_PortraitIsLocalPath ==
  /\ (ListDone /\ Sent.status = 200) =>
        \A k \in 1..Len(Sent.body.items) :
           LET item == Sent.body.items[k]
           IN /\ item.portrait_url = "/portraits/" \o item.bioguide_id \o ".jpg"
              /\ item.portrait_url \notin StoredPortraits
              /\ \E r \in db.legislators : r.bioguide_id = item.bioguide_id
  /\ (ProfileDone /\ Sent.status = 200) =>
        /\ Sent.body.bioguide_id = req.bioguide_id
        /\ Sent.body.portrait_url = "/portraits/" \o req.bioguide_id \o ".jpg"
        /\ Sent.body.portrait_url \notin StoredPortraits

C11_Witness ==
  /\ ListDone
  /\ Sent.status = 200
  /\ Len(Sent.body.items) >= 4
  /\ \E k \in 1..4 : Sent.body.items[k].portrait_url = "/portraits/N000001.jpg"
  /\ \E r \in db.legislators : r.portrait_url = "https://cdn.example/new/N000001"

\* C12: no step of the server changes the store.
C12_ApiLeavesStoreUnchanged == [][db' = db]_vars

\* the responses a list request with the locals of this one gets from a store
ListAlone(store) ==
  LET n == Cardinality(store.legislators)
  IN {Response(200, [XTotalCount |-> HeaderText(n)],
               [items |-> ListItems(ListPageQuery(store, loc.pageSize, loc.offset, scan)),
                totalCount |-> n, page |-> loc.page, pageSize |-> loc.pageSize]) :
        scan \in ScanOrders}

\* the response res is one a profile request for this identifier gets from a store
ProfileAlone(store, res) ==
  LET rows == CoreQuery(store, req.bioguide_id, "fwd")
  IN IF Len(rows) = 0
       THEN res = Response(404, NoHeaders, [error |-> "Legislator not found"])
       ELSE LET id == rows[1].id
                core == [ClientLeg(rows[1]) EXCEPT
                           !.portrait_url = PortraitPath(req.bioguide_id)]
            IN /\ res.status = 200
               /\ DOMAIN res.body = DOMAIN core \cup SectionFields
               /\ \A f \in DOMAIN core : res.body[f] = core[f]
               /\ \E scan \in ScanOrders :
                    res.body.service_history = ServiceHistoryQuery(store, id, scan)
               /\ \E scan \in ScanOrders :
                    res.body.committees = CommitteesQuery(store, id, scan)
               /\ \E scan \in ScanOrders :
                    res.body.leadership_positions = LeadershipQuery(store, id, scan)
               /\ \E scan \in ScanOrders :
                    res.body.sponsored_bills = BillsQuery(store, id, scan)
               /\ \E scan \in ScanOrders :
                    res.body.finance_summary =
                      FinanceSummary(FinanceQuery(store, id, scan))
               /\ \E scan \in ScanOrders :
                    res.body.recent_votes = VotesQuery(store, id, scan)

\* C15: whatever other request runs next to it, a list or profile request
\* that the store answers gets a response it could get alone from the store
\* as it was when the request was received.
C15_ConcurrentRequestsAreIndependent ==
  /\ (ListDone /\ fault = "none") => Sent \in ListAlone(started)
  /\ (ProfileDone /\ fault = "none") => ProfileAlone(started, Sent)

\* the header value h has a character that is not white space
NotBlank(h) == h.present /\ \E i \in 1..Len(h.text) : h.text[i] \notin WhiteSpace

\* u is t without its leading and trailing white space
IsTrimOf(u, t) ==
  \E i \in 1..Len(t), j \in 1..Len(t) :
     /\ i <= j
     /\ u = SubSeq(t, i, j)
     /\ t[i] \notin WhiteSpace
     /\ t[j] \notin WhiteSpace
     /\ \A k \in 1..Len(t) : (k < i \/ k > j) => t[k] \in WhiteSpace

\* what the middleware left on a request c and its response
Correlated(c) ==
  /\ c.XCorrelationID = c.correlationId
  /\ IF NotBlank(c.incoming)
       THEN IsTrimOf(c.correlationId, c.incoming.text)
       ELSE c.correlationId \in Uuids

\* C18: every request the middleware has passed has, as req.correlationId and
\* as its X-Correlation-ID response header, the incoming header without its
\* leading and trailing white space when that is not blank, and a generated
\* UUID otherwise; and every response, whatever its status, is the response
\* of such a request.
C18_CorrelationIdIsEchoed ==
  /\ corr # NoCorrelation => Correlated(corr)
  /\ Len(responses) > 0 => (corr # NoCorrelation /\ Correlated(corr))
  /\ etl.pc # "idle" => Correlated(etl)

C18_Witness ==
  /\ ProfileDone
  /\ Sent.status = 404
  /\ corr.incoming = Text(<<" ", "a", " ", "b", "\t">>)
  /\ corr.XCorrelationID = <<"a", " ", "b">>
  /\ etl.pc = "done"
  /\ etl.XCorrelationID \in Uuids

\* the record matches a legislator on (lower-cased name, state, district)
Matched(rec) ==
  /\ ~IsNone(rec.name)
  /\ \E l \in db.legislators :
        /\ Lower(l.full_name) = Lower(rec.name.str)
        /\ PyStr(l.state) = rec.state
        /\ PyOfDistrict(l.district) = NormalDistrict(rec.district)

\* C16: every call of normalize_and_map returns; its rows are the records
\* that match a legislator, in input order, and rows and warnings together
\* are as many as the records.
C16_UnmatchedRecordsAreDropped ==
  (job.pc # "off" /\ job.last # NoCall) =>
     LET records == job.last.records
         result == job.last.result
         matched == SelectSeq(records, Matched)
     IN /\ result.status = "returned"
        /\ [i \in 1..Len(result.rows) |-> result.rows[i].fec_id] =
             [i \in 1..Len(matched) |-> matched[i].candidate_id]
        /\ Len(result.rows) + result.warnings = Len(records)

\* C17: when a run that mapped every cycle and office has ended,
\* fec_candidates has at most one row per (fec_id, cycle), it has a row for
\* the (fec_id, cycle) of every mapped row, and, the run being a repetition,
\* it has the rows it had before, the time of the write apart.
C17_UpsertsAreKeyedByNaturalKey ==
  (job.pc \in {"done", "failed"} /\ job.k > NumCombos) =>
     /\ \A a, b \in fec : (a.fec_id = b.fec_id /\ a.cycle = b.cycle) => a = b
     /\ \A i \in 1..Len(job.all_rows) :
           \E r \in fec : /\ r.fec_id = job.all_rows[i].fec_id
                          /\ r.cycle = job.all_rows[i].cycle
     /\ job.run > 1 => Stable(fec) = job.kept

\* the lookups of a profile request: the handler's position before each, and
\* the table each reads
LookupSteps ==
  <<"core", "service_history", "committees", "leadership", "bills", "finance",
    "votes">>
LookupTables ==
  <<"legislators", "service_history", "committee_assignments",
    "leadership_roles", "bill_sponsorships", "campaign_finance", "vote_records">>
StepNo(s) == CHOOSE k \in 1..Len(LookupSteps) : LookupSteps[k] = s
IsPrefix(s, t) == Len(s) <= Len(t) /\ s = SubSeq(t, 1, Len(s))

\* C21: within one profile request the lookups are issued in the order core,
\* service history, committees, leadership, bills, finance, votes, each at
\* most once: the queries issued so far are always a prefix of that order,
\* a request answered with 200 has issued exactly 7, and a request whose
\* lookup k failed, or whose core row is missing, has issued exactly the
\* first k (the first one) and nothing after.
C21_LookupsInFixedOrderOnce ==
  req.kind = "profile" =>
     /\ IsPrefix(queries, LookupTables)
     /\ pc \in {LookupSteps[k] : k \in 1..Len(LookupSteps)} =>
          /\ Len(queries) = StepNo(pc) - 1
          /\ responses = <<>>
     /\ Done =>
          /\ Len(responses) = 1
          /\ Sent.status = 200 => Len(queries) = 7 /\ fault = "none"
          /\ Sent.status = 404 => Len(queries) = 1
          /\ fault # "none" => Len(queries) = StepNo(fault) /\ Sent.status = 500

\* a request that failed at its fourth lookup
C21_Witness ==
  /\ ProfileDone
  /\ fault = "leadership"
  /\ queries = SubSeq(LookupTables, 1, 4)

\* the Origin header of the request the middleware has checked
OriginSent == cors.origin
\* o is FRONTEND_ORIGIN, or stands between commas in ADDITIONAL_ORIGINS
IsPieceOf(o, s) ==
  /\ \A i \in 1..Len(o) : o[i] # ","
  /\ \E i \in 0..(Len(s) - Len(o)) :
       /\ SubSeq(s, i + 1, i + Len(o)) = o
       /\ i = 0 \/ s[i] = ","
       /\ i + Len(o) = Len(s) \/ s[i + Len(o) + 1] = ","
ConfiguredOrigin(o) ==
  \/ cors.env.FRONTEND_ORIGIN.present /\ cors.env.FRONTEND_ORIGIN.text = o
  \/ cors.env.ADDITIONAL_ORIGINS.present /\ IsPieceOf(o, cors.env.ADDITIONAL_ORIGINS.text)
HasSuffix(o, suffix) == \E i \in 0..Len(o) : SubSeq(o, i + 1, Len(o)) = suffix
WildcardOrigin(o) == HasSuffix(o, VercelApp) \/ HasSuffix(o, OnrenderCom)
RouteKinds == {"list", "profile", "bills", "votes", "finance", "health"}

\* what follows the verdict: a rejected request is answered by the error
\* handler, with the error 'Not allowed by CORS', and no handler of a route
\* has run for it; a request a route handles was accepted
RejectedNeverRouted ==
  /\ (cors.checked /\ ~cors.allowed) =>
        /\ err = "Not allowed by CORS"
        /\ req.kind = "blocked"
        /\ queries = <<>>
        /\ responses = <<Response(500, NoHeaders, [error |-> "Internal Server Error"])>>
  /\ req.kind \in RouteKinds => cors.checked /\ cors.allowed

\* C22 as stated: the origin check accepts a request exactly when it has no
\* Origin header, or its origin is one of the configured exact origins, or it
\* ends with one of the two wildcard suffixes; every other request is
\* rejected with 'Not allowed by CORS' and reaches no route handler.
C22_AcceptsExactlyWithoutOriginHeader ==
  /\ cors.checked =>
       (cors.allowed <=>
          \/ ~OriginSent.present
          \/ ConfiguredOrigin(OriginSent.text)
          \/ WildcardOrigin(OriginSent.text))
  /\ RejectedNeverRouted

\* C22, amended: the origin check accepts a request exactly when it has no
\* Origin header or an empty one, or its origin is one of the configured
\* exact origins, or it ends with one of the two wildcard suffixes; every
\* other request is rejected with 'Not allowed by CORS' and reaches no route
\* handler.
C22_CorsAcceptsExactlyTheAllowList ==
  /\ cors.checked =>
       (cors.allowed <=>
          \/ ~OriginSent.present
          \/ OriginSent.text = <<>>
          \/ ConfiguredOrigin(OriginSent.text)
          \/ WildcardOrigin(OriginSent.text))
  /\ RejectedNeverRouted

\* a request from an http origin under .onrender.com, answered by the list
\* endpoint
C22_Witness ==
  /\ ListDone
  /\ Sent.status = 200
  /\ cors.allowed
  /\ OriginSent.present
  /\ HasSuffix(OriginSent.text, OnrenderCom)
  /\ ~ConfiguredOrigin(OriginSent.text)

\* what one response of the source holds
ResultsOf(data) == IF "results" \in DOMAIN data THEN data.results ELSE <<>>
ReportsCount(data) == "pagination" \in DOMAIN data /\ "pages" \in DOMAIN data.pagination
RECURSIVE ConcatResults(_)
ConcatResults(fetched) ==
  IF Len(fetched) = 0
    THEN <<>>
    ELSE ConcatResults(SubSeq(fetched, 1, Len(fetched) - 1)) \o
           ResultsOf(fetched[Len(fetched)].data)

\* the pages requested so far for the current cycle and office are 1, 2, 3,
\* ..., each once; none but the last was empty or had reached the page count
\* reported with it; the records gathered are those of the pages, in order;
\* and once the loop is left, the last page was empty or had reached the page
\* count reported with it
FetchesInOrder ==
  job.pc \in {"fetch", "map"} =>
     LET n == Len(job.fetched)
     IN /\ \A i \in 1..n : job.fetched[i].page = i
        /\ job.pc = "fetch" => job.page = n + 1
        /\ \A i \in 1..(IF job.pc = "fetch" THEN n ELSE n - 1) :
              /\ Len(ResultsOf(job.fetched[i].data)) > 0
              /\ ReportsCount(job.fetched[i].data) =>
                    i < job.fetched[i].data.pagination.pages
        /\ job.candidates = ConcatResults(job.fetched)
        /\ job.pc = "map" =>
              /\ n >= 1
              /\ ReportsCount(job.fetched[n].data) =>
                    \/ Len(ResultsOf(job.fetched[n].data)) = 0
                    \/ n >= job.fetched[n].data.pagination.pages

\* C23: fetch_candidates terminates for every cycle and office; it requests
\* pages 1, 2, 3, ... in ascending order, each at most once, stops at the
\* first page with empty results or once the page number reaches the page
\* count the source reports, and returns the concatenation of the results of
\* the pages fetched, in page order.
C23_FetchPagesInOrderAndStops ==
  /\ []FetchesInOrder
  /\ (job.pc = "fetch") ~> (job.pc # "fetch")

\* a fetch that took two pages and returned three records
C23_Witness ==
  /\ job.pc = "map"
  /\ Len(job.fetched) = 2
  /\ Len(job.candidates) = 3
  /\ job.reported = "exact"

\* C24: the mapping job writes all or nothing: a run makes at most one bulk
\* upsert, and only after every (cycle, office) combination has been fetched
\* and mapped and with the rows of all of them; when a fetch or a mapping
\* step raised, or no record was mapped, no upsert was made and
\* fec_candidates is as it was when the run began.
C24_MappingWritesAllOrNothing ==
  job.pc # "off" =>
     /\ job.upserts <= 1
     /\ job.upserts = 1 => job.k > NumCombos /\ Len(job.all_rows) > 0
     /\ job.raised \in {"fetch", "map"} => job.upserts = 0
     /\ (job.k > NumCombos /\ Len(job.all_rows) = 0) => job.upserts = 0
     /\ job.upserts = 0 => fec = job.before

\* a run that had mapped rows of earlier cycles and offices when a fetch
\* raised
C24_Witness ==
  /\ job.pc = "failed"
  /\ job.raised = "fetch"
  /\ job.k > 2
  /\ Len(job.all_rows) > 0
  /\ fec = job.before

\* the rows of a related table that the requested legislator owns
Owned(table) == {r \in table : r.legislator_id = RowOf(req.bioguide_id).id}
Entries(section) == {section[i] : i \in 1..Len(section)}
KeyFields == {"id", "legislator_id"}

\* C25: the surrogate key is used for the sub-queries only: the id the
\* handler filters by is that of the legislators row of the requested
\* bioguide_id; every entry of every section of a successful response shows a
\* row whose legislator_id is that id; and neither the response nor any entry
\* of a section has a field id or legislator_id.
C25_SurrogateKeyStaysInternal ==
  /\ (req.kind = "profile" /\ "legislatorId" \in DOMAIN loc) =>
        /\ KnownId(req.bioguide_id)
        /\ loc.legislatorId = RowOf(req.bioguide_id).id
  /\ (ProfileDone /\ Sent.status = 200) =>
        LET b == Sent.body
        IN /\ KeyFields \cap DOMAIN b = {}
           /\ \A f \in SectionFields \ {"finance_summary"} :
                 \A e \in Entries(b[f]) : KeyFields \cap DOMAIN e = {}
           /\ KeyFields \cap DOMAIN b.finance_summary = {}
           /\ Entries(b.service_history) \subseteq OwnTerms
           /\ \A e \in Entries(b.committees) :
                 \E r \in Owned(db.committee_assignments) :
                    /\ r.id = e.committee_id
                    /\ r.committee_name = e.name
                    /\ r.role = e.role
                    /\ r.congress = e.congress
           /\ \A e \in Entries(b.leadership_positions) :
                 \E r \in Owned(db.leadership_roles) :
                    /\ r.id = e.leadership_id
                    /\ r.role = e.title
                    /\ r.congress = e.congress
           /\ \A e \in Entries(b.sponsored_bills) : BillShown(e) # {}
           /\ \A e \in Entries(b.recent_votes) : VoteShown(e) # {}
           /\ \/ b.finance_summary = EmptyObject
              \/ \E r \in Owned(db.campaign_finance) :
                    /\ r.cycle = b.finance_summary.cycle
                    /\ r.total_raised = b.finance_summary.total_contributions

\* a profile of the second legislator, every section of which has an entry,
\* from a store in which the first legislator has rows in every table too
C25_Witness ==
  /\ ProfileDone
  /\ Sent.status = 200
  /\ req.bioguide_id = "L000002"
  /\ \A f \in SectionFields \ {"finance_summary"} : Len(Sent.body[f]) > 0
  /\ Sent.body.finance_summary # EmptyObject
  /\ \A t \in RelatedTables : \E r \in db[t] : r.legislator_id = 1

\* the run of the ETL succeeded: the promise resolved, or the script exited
\* with code 0
RunSucceeded == etl.outcome = [promise |-> "resolved"] \/ etl.outcome = Val(0)

\* C26: every POST /api/etl/legislators request receives exactly one
\* response, sent only after the ETL run has ended: no response while the
\* run is under way, and, the run over, one response, with status 200 when
\* the run succeeded and 500 in every other outcome, a script that could not
\* be started included.
C26_TriggerAnsweredOnceAfterRun ==
  /\ etl.pc \in {"spawned", "running"} => etl.responses = <<>>
  /\ etl.pc \in {"done", "crashed"} =>
        /\ Len(etl.responses) = 1
        /\ etl.responses[1].status = IF RunSucceeded THEN 200 ELSE 500

\* ---------------------------------------------------------------------------
\* C27: useDebounce emits a value only after the input has stayed unchanged
\* for the full delay: at most one timer is pending, and it is the timer of
\* the current input, so the timer of an input that was replaced never runs;
\* every value it emitted was the current input when it was emitted; and a
\* pending timer leads to the debounced value being the last input (or to the
\* component leaving the screen).
\* ---------------------------------------------------------------------------
ListOpened == ui # NoClient /\ ui.component = "list"

DebounceKeepsOneTimer ==
  ListOpened =>
    /\ Cardinality(ui.timers) <= 1
    /\ \A t \in ui.timers : t.handle = ui.handles /\ t.value = ui.query
    /\ \A i \in 1..Len(ui.emissions) :
         /\ ui.emissions[i].handle = ui.emissions[i].last
         /\ ui.emissions[i].value = ui.emissions[i].input
    /\ (ListShown /\ ui.timers = {}) => ui.debouncedQuery = ui.query

DebouncePending == ListShown /\ ui.timers # {}
DebounceSettled == ~ListShown \/ (ui.timers = {} /\ ui.debouncedQuery = ui.query)

C27_DebounceEmitsOnlySettledInput ==
  []DebounceKeepsOneTimer /\ (DebouncePending ~> DebounceSettled)

\* two inputs were replaced before their delay elapsed and the third one was
\* emitted
C27_Witness ==
  /\ ListOpened
  /\ \E i \in 1..Len(ui.emissions) :
       /\ ui.emissions[i].handle > i + 1
       /\ ui.emissions[i].value # ""
       /\ ui.debouncedQuery = ui.emissions[i].value

\* ---------------------------------------------------------------------------
\* C28: when the requested identifier (or page and filters) changes while an
\* earlier fetch is in flight, the data finally displayed is that of the most
\* recent request: loading is false only when the latest request has
\* settled, the responses are applied in the order of their requests, and
\* the profile on screen once nothing is in flight is the one of the route's
\* id.
\* ---------------------------------------------------------------------------
LatestSettled == \A r \in ui.fetches : r.seq # ui.seq

LoadingUntilLatestSettled == ui # NoClient => (~ui.loading => LatestSettled)

AppliedInRequestOrder ==
  ui # NoClient =>
    \A i \in 1..Len(ui.applied) : \A j \in 1..Len(ui.applied) :
      i < j => ui.applied[i].seq < ui.applied[j].seq

DisplaysRequestedProfile ==
  (ProfileShown /\ ui.fetches = {} /\ ui.error = "" /\ ui.legislator # NULL /\ Truthy(ui.id))
    => ui.legislator.bioguide_id = ui.id.text

C28_LatestRequestWins ==
  /\ LoadingUntilLatestSettled
  /\ AppliedInRequestOrder
  /\ DisplaysRequestedProfile

\* ---------------------------------------------------------------------------
\* C29: the page state of LegislatorList is a positive integer in every
\* reachable state; the updaters of Prev and Next keep a positive page
\* positive and Prev at page 1 gives page 1; Apply and Reset leave page 1,
\* and Reset leaves the name query and the party and state filters empty,
\* from whatever page and filters they are clicked at.
\* ---------------------------------------------------------------------------
PagePositive == ListOpened => (ui.page \in Nat /\ ui.page >= 1)

UpdatersKeepPositive ==
  /\ PrevPage(1) = 1
  /\ \A p \in 1..MaxPage : PrevPage(p) \in 1..p /\ NextPage(p) = p + 1

\* the handlers, applied to the component's state at any page and filters
HandlersResetPage ==
  ListShown =>
    \A p \in 1..MaxPage, q \in ClientQueries, pa \in ClientParties, st \in ClientStates :
      LET s == [ui EXCEPT !.page = p, !.query = q, !.party = pa, !.stateFilter = st]
          t == handleReset(s)
      IN /\ t.page = 1
         /\ t.query = "" /\ t.party = "" /\ t.stateFilter = ""
         /\ t = [s EXCEPT !.page = 1, !.query = "", !.party = "", !.stateFilter = ""]

PagerStep ==
  /\ (Prev /\ ui.page = 1) => ui'.page = 1
  /\ (Prev \/ NextClick) => ui'.page >= 1
  /\ Apply => ui'.page = 1
  /\ ResetFilters =>
       /\ ui'.page = 1
       /\ ui'.query = "" /\ ui'.party = "" /\ ui'.stateFilter = ""

C29_PageStaysPositive ==
  [](PagePositive /\ UpdatersKeepPositive /\ HandlersResetPage) /\ [][PagerStep]_vars

\* a name was typed and Reset has cleared it: the timer of the cleared input
\* is the third one set, and the page is 1 with every filter empty
C29_Witness ==
  /\ ListShown
  /\ ui.page = 1 /\ ui.query = "" /\ ui.party = "" /\ ui.stateFilter = ""
  /\ ui.handles = 3
  /\ \E t \in ui.timers : t.handle = 3 /\ t.value = ""

\* ---------------------------------------------------------------------------
\* C30: after a successful fetch the client's legislators state is the array
\* of item records of the server's response, so that its length is defined
\* and the render gives one card per item.
\* ---------------------------------------------------------------------------
LastApplied == ui.applied[Len(ui.applied)].res

C30_ClientHoldsServerItems ==
  (ListOpened /\ ui.applied # <<>>) =>
    /\ ui.legislators = Arr(LastApplied.body.items)
    /\ length(ui.legislators) = Val(Len(LastApplied.body.items))
    /\ Cards(ui).thrown = "none"
    /\ Len(Cards(ui).cards) = Len(LastApplied.body.items)
    /\ ui.view = "mounted"

====
